---- MODULE Spec2Model ----
(***************************************************************************)
(* Tag Jumper: boundary extraction over the Babel syntax tree of a JSX     *)
(* text, the LRU result cache keyed by content hash and function name,     *)
(* and the four navigation commands that move the editor cursor.           *)
(***************************************************************************)
EXTENDS Integers, Sequences, FiniteSets, TLC

VARIABLES
    text,           \* editor.document.getText(): the document, a sequence of characters
    cursor,         \* editor.document.offsetAt(editor.selection.active)
    activeEditor,   \* vscode.window.activeTextEditor is defined
    includeTagSetting, \* tag-jumper.includeTagPositionsInAttributeNavigation
    boundaryCache,  \* the LRU cache: entries [key, value], most recently used first
    last,           \* what the most recent command did (its locals)
    recency,        \* history: the cache keys ever used, most recently used first
    everHit,        \* history kept by the cache-filling session: the keys ever hit
    input,          \* a text handed directly to a locate function
    output          \* what that locate function returned or threw

vars == <<text, cursor, activeEditor, includeTagSetting, boundaryCache, last, recency,
          everHit, input, output>>

(***************************************************************************)
(* Bounds of the model.                                                    *)
(***************************************************************************)
\* Largest number of trailing newlines an edit may leave after the markup.
MaxPad == 1

\* Largest number of trailing newlines in the session that fills the cache.
LruPads == 19

(***************************************************************************)
(* Generic helpers.                                                        *)
(***************************************************************************)
Range(s) == {s[i] : i \in DOMAIN s}

RECURSIVE Repeat(_, _)
Repeat(c, n) == IF n <= 0 THEN <<>> ELSE <<c>> \o Repeat(c, n - 1)

Min(a, b) == IF a <= b THEN a ELSE b
Max(a, b) == IF a >= b THEN a ELSE b

(***************************************************************************)
(* Source programs.  A document is written from a syntax tree: the text is *)
(* what Render produces, and the parser recovers the tree with the         *)
(* half-open [start, end) character ranges of its nodes.                   *)
(***************************************************************************)
NoElem == <<>>

\* Expressions that may stand between the braces of an attribute value,
\* with the node type @babel/parser gives each.
ExpressionSamples ==
    { [type |-> "Identifier",       src |-> <<"f">>],
      [type |-> "Identifier",       src |-> <<"f", "o", "o">>],
      [type |-> "NumericLiteral",   src |-> <<"4", "2">>],
      [type |-> "ArrayExpression",  src |-> <<"[", "1", "]">>],
      [type |-> "ObjectExpression", src |-> <<"{", "a", "}">>],
      [type |-> "StringLiteral",    src |-> <<"\"", "b", "\"">>],
      [type |-> "CallExpression",   src |-> <<"g", "(", ")">>],
      [type |-> "UnaryExpression",  src |-> <<"!", "c">>],
      [type |-> "UpdateExpression", src |-> <<"i", "+", "+">>] }

SpreadAttr(arg) ==
    [type |-> "JSXSpreadAttribute", name |-> arg, vtype |-> "", etype |-> "",
     src |-> <<>>, elem |-> NoElem]
BoolAttr(name) ==
    [type |-> "JSXAttribute", name |-> name, vtype |-> "null", etype |-> "",
     src |-> <<>>, elem |-> NoElem]
StringAttr(name, s) ==
    [type |-> "JSXAttribute", name |-> name, vtype |-> "StringLiteral", etype |-> "",
     src |-> s, elem |-> NoElem]
ElementAttr(name, e) ==
    [type |-> "JSXAttribute", name |-> name, vtype |-> "JSXElement", etype |-> "",
     src |-> <<>>, elem |-> <<e>>]
FragmentAttr(name, es) ==
    [type |-> "JSXAttribute", name |-> name, vtype |-> "JSXFragment", etype |-> "",
     src |-> <<>>, elem |-> es]
ExprAttr(name, x) ==
    [type |-> "JSXAttribute", name |-> name, vtype |-> "JSXExpressionContainer",
     etype |-> x.type, src |-> x.src, elem |-> NoElem]
ExprElementAttr(name, e) ==
    [type |-> "JSXAttribute", name |-> name, vtype |-> "JSXExpressionContainer",
     etype |-> "JSXElement", src |-> <<>>, elem |-> <<e>>]
ExprFragmentAttr(name, es) ==
    [type |-> "JSXAttribute", name |-> name, vtype |-> "JSXExpressionContainer",
     etype |-> "JSXFragment", src |-> <<>>, elem |-> es]

\* <name attrs/> or <name attrs>content children</name>; sp blanks precede the
\* closing punctuation of the opening tag.
Element(name, attrs, selfClosing, sp, content, children) ==
    [name |-> name, attrs |-> attrs, selfClosing |-> selfClosing, sp |-> sp,
     content |-> content, children |-> children]

RECURSIVE RenderElem(_), RenderElems(_), RenderAttr(_), RenderAttrs(_)

RenderElems(es) ==
    IF es = <<>> THEN <<>> ELSE RenderElem(Head(es)) \o RenderElems(Tail(es))

RenderAttrs(attrs) ==
    IF attrs = <<>> THEN <<>>
    ELSE <<" ">> \o RenderAttr(Head(attrs)) \o RenderAttrs(Tail(attrs))

RenderAttr(a) ==
    IF a.type = "JSXSpreadAttribute"
    THEN <<"{", ".", ".", ".">> \o a.name \o <<"}">>
    ELSE CASE a.vtype = "null" -> a.name
           [] a.vtype = "StringLiteral" -> a.name \o <<"=", "\"">> \o a.src \o <<"\"">>
           [] a.vtype = "JSXElement" -> a.name \o <<"=">> \o RenderElems(a.elem)
           [] a.vtype = "JSXFragment" ->
                a.name \o <<"=", "<", ">">> \o RenderElems(a.elem) \o <<"<", "/", ">">>
           [] a.vtype = "JSXExpressionContainer" ->
                a.name \o <<"=", "{">>
                \o (CASE a.etype = "JSXElement" -> RenderElems(a.elem)
                      [] a.etype = "JSXFragment" ->
                           <<"<", ">">> \o RenderElems(a.elem) \o <<"<", "/", ">">>
                      [] OTHER -> a.src)
                \o <<"}">>

RenderElem(e) ==
    <<"<">> \o e.name \o RenderAttrs(e.attrs) \o Repeat(" ", e.sp)
    \o (IF e.selfClosing
        THEN <<"/", ">">>
        ELSE <<">">> \o e.content \o RenderElems(e.children)
             \o <<"<", "/">> \o e.name \o <<">">>)

\* A program: some script text, at most one root element, trailing newlines.
Program(pre, root, pad) == [pre |-> pre, root |-> root, pad |-> pad]

Render(p) == p.pre \o RenderElems(p.root) \o Repeat("\n", p.pad)

(***************************************************************************)
(* The programs the model reads.                                           *)
(***************************************************************************)
InnerSelf == Element(<<"c">>, <<>>, TRUE, 0, <<>>, <<>>)
InnerBool == Element(<<"c">>, <<BoolAttr(<<"d">>)>>, TRUE, 0, <<>>, <<>>)
InnerOpen == Element(<<"c">>, <<>>, FALSE, 0, <<"t">>, <<>>)

LeafAttrs ==
    { SpreadAttr(<<"p">>), BoolAttr(<<"v">>),
      StringAttr(<<"s">>, <<>>), StringAttr(<<"s">>, <<"f", "o", "o">>) }
    \cup { ExprAttr(<<"e">>, x) : x \in ExpressionSamples }

NestedAttrs ==
    { ElementAttr(<<"n">>, InnerSelf), ElementAttr(<<"n">>, InnerBool),
      ElementAttr(<<"n">>, InnerOpen),
      FragmentAttr(<<"n">>, <<>>), FragmentAttr(<<"n">>, <<InnerSelf>>),
      ExprElementAttr(<<"n">>, InnerSelf), ExprElementAttr(<<"n">>, InnerBool),
      ExprFragmentAttr(<<"n">>, <<>>), ExprFragmentAttr(<<"n">>, <<InnerBool>>) }

Attrs == LeafAttrs \cup NestedAttrs

SecondAttrs ==
    { BoolAttr(<<"w">>), SpreadAttr(<<"q">>), StringAttr(<<"k">>, <<"x">>),
      ExprElementAttr(<<"m">>, InnerBool) }

ShortAttrLists == {<<>>} \cup { <<a>> : a \in Attrs }

PairAttrLists == { <<a, b>> : a \in Attrs, b \in SecondAttrs }

Children == { <<>>, <<InnerSelf>>, <<InnerOpen, InnerBool>> }

RootElements ==
    { Element(<<"a">>, attrs, TRUE, sp, <<>>, <<>>) :
        attrs \in ShortAttrLists, sp \in {0, 1} }
    \cup { Element(<<"a">>, attrs, TRUE, 0, <<>>, <<>>) : attrs \in PairAttrLists }
    \cup { Element(<<"b", "r">>, <<>>, TRUE, 0, <<>>, <<>>) }
    \cup { Element(<<"b", "r">>, attrs, FALSE, 0, <<"t">>, ch) :
             attrs \in ShortAttrLists, ch \in Children }

Pads == 0 .. MaxPad

\* <a v/> followed by pad newlines: the contents of the cache-filling session.
LruProgram(pad) ==
    Program(<<>>, <<Element(<<"a">>, <<BoolAttr(<<"v">>)>>, TRUE, 0, <<>>, <<>>)>>, pad)

\* <div>content</div>
DivProgram ==
    Program(<<>>, <<Element(<<"d", "i", "v">>, <<>>, FALSE, 0,
                            <<"c", "o", "n", "t", "e", "n", "t">>, <<>>)>>, 0)

\* The documents of the navigation tests: <div><span>foo</span></div>,
\* <input type="text" value="foo" /> and const foo = 123;
TestPrograms ==
    { Program(<<>>, <<Element(<<"d", "i", "v">>, <<>>, FALSE, 0, <<>>,
                              <<Element(<<"s", "p", "a", "n">>, <<>>, FALSE, 0,
                                        <<"f", "o", "o">>, <<>>)>>)>>, 0),
      Program(<<>>, <<Element(<<"i", "n", "p", "u", "t">>,
                              <<StringAttr(<<"t", "y", "p", "e">>, <<"t", "e", "x", "t">>),
                                StringAttr(<<"v", "a", "l", "u", "e">>, <<"f", "o", "o">>)>>,
                              TRUE, 1, <<>>, <<>>)>>, 0),
      Program(<<"c", "o", "n", "s", "t", " ", "f", "o", "o", " ", "=", " ", "1", "2", "3",
                ";">>, <<>>, 0) }

\* <a s="c"/>: documents that differ in c, which is a lone high surrogate,
\* a lone low surrogate, U+FFFD, or a surrogate pair.
SurrogatePrograms ==
    { Program(<<>>, <<Element(<<"a">>, <<StringAttr(<<"s">>, c)>>, TRUE, 0, <<>>, <<>>)>>, 0) :
        c \in { <<"U+D800">>, <<"U+DC00">>, <<"U+FFFD">>, <<"U+D800", "U+DC00">> } }

Programs ==
    { Program(<<>>, <<e>>, pad) : e \in RootElements, pad \in Pads }
    \cup { DivProgram }
    \cup SurrogatePrograms
    \cup TestPrograms
    \cup { LruProgram(pad) : pad \in 0 .. LruPads }
    \cup { Program(<<"x", "=">>, <<Element(<<"a">>, attrs, TRUE, 0, <<>>, <<>>)>>, pad) :
             attrs \in ShortAttrLists, pad \in Pads }
    \cup { Program(pre, <<>>, pad) : pre \in { <<>>, <<"x">>, <<"x", "=", "1">> }, pad \in Pads }

\* Texts @babel/parser rejects: an unclosed tag, a stray closing tag, two
\* roots, an assignment without its right-hand side, each with trailing
\* newlines.
MalformedTexts ==
    { m \o Repeat("\n", pad) :
        m \in { <<"<", "a", ">">>, <<"<", "/", "a", ">">>,
                <<"<", "a", "/", ">", "<", "a", "/", ">">>, <<"x", "=">> },
        pad \in Pads }

RenderTable == [p \in Programs |-> Render(p)]

WellFormedTexts == { RenderTable[p] : p \in Programs }

AllTexts == WellFormedTexts \cup MalformedTexts

\* The program each well-formed text is the rendering of.
ProgramOf == [t \in WellFormedTexts |-> CHOOSE p \in Programs : RenderTable[p] = t]

(***************************************************************************)
(* @babel/parser and @babel/traverse.                                      *)
(***************************************************************************)
AttrNode(a, start) ==
    [type |-> a.type, start |-> start, end |-> start + Len(RenderAttr(a)),
     value |-> [type |-> a.vtype, expression |-> [type |-> a.etype]]]

\* Offset of the first element nested in the value of the attribute at start.
NestedStart(a, start) ==
    start + Len(a.name) + 1
    + (IF a.vtype = "JSXExpressionContainer" THEN 1 ELSE 0)
    + (IF a.vtype = "JSXFragment" \/ a.etype = "JSXFragment" THEN 2 ELSE 0)

RECURSIVE AttributeNodes(_, _)
AttributeNodes(attrs, pos) ==
    IF attrs = <<>> THEN <<>>
    ELSE <<AttrNode(Head(attrs), pos + 1)>>
         \o AttributeNodes(Tail(attrs), pos + 1 + Len(RenderAttr(Head(attrs))))

RECURSIVE OpeningElementsOf(_, _), OpeningElementsWithin(_, _, _, _),
          ElementsFrom(_, _), NestedInAttributes(_, _)

\* The JSXOpeningElement nodes below an element, in the order traverse enters
\* them: the element's own opening tag, the elements inside its attribute
\* values, then its children.
OpeningElementsOf(e, start) ==
    OpeningElementsWithin(e, start, start + 1 + Len(e.name),
                          start + 1 + Len(e.name) + Len(RenderAttrs(e.attrs)) + e.sp
                          + (IF e.selfClosing THEN 2 ELSE 1))

\* nameEnd: the offset after the tag name; openEnd: the offset after the
\* opening tag's closing punctuation.
OpeningElementsWithin(e, start, nameEnd, openEnd) ==
    << [type |-> "JSXOpeningElement", start |-> start, end |-> openEnd,
        selfClosing |-> e.selfClosing,
        attributes |-> AttributeNodes(e.attrs, nameEnd)] >>
    \o NestedInAttributes(e.attrs, nameEnd)
    \o (IF e.selfClosing THEN <<>>
        ELSE ElementsFrom(e.children, openEnd + Len(e.content)))

ElementsFrom(es, start) ==
    IF es = <<>> THEN <<>>
    ELSE OpeningElementsOf(Head(es), start)
         \o ElementsFrom(Tail(es), start + Len(RenderElem(Head(es))))

NestedInAttributes(attrs, pos) ==
    IF attrs = <<>> THEN <<>>
    ELSE ElementsFrom(Head(attrs).elem, NestedStart(Head(attrs), pos + 1))
         \o NestedInAttributes(Tail(attrs), pos + 1 + Len(RenderAttr(Head(attrs))))

\* parse(text, BABEL_PARSE_OPTIONS) on the texts of AllTexts: the tree of
\* the program the text was written from, or a SyntaxError for a text the
\* parser rejects.  No other text has a value here.
parse(t) ==
    CASE t \in WellFormedTexts ->
           [threw |-> FALSE, error |-> "", ast |-> ProgramOf[t]]
      [] t \in MalformedTexts ->
           [threw |-> TRUE, error |-> "SyntaxError", ast |-> Program(<<>>, <<>>, 0)]

\* traverse(ast, {JSXOpeningElement}): the nodes the visitor is called with.
traverse(ast) == ElementsFrom(ast.root, Len(ast.pre))

(***************************************************************************)
(* babel-boundary-locator.ts                                               *)
(***************************************************************************)
\* Lookup table for JSXExpressionContainer types and their offsets.
JSX_EXPRESSION_TYPE_OFFSETS ==
    [
      ArrayExpression |-> -2, ArrowFunctionExpression |-> -2, AssignmentExpression |-> -2,
      AwaitExpression |-> -1, BigIntLiteral |-> -1, BindExpression |-> -1,
      BinaryExpression |-> -1, BooleanLiteral |-> -1, CallExpression |-> -1,
      ClassExpression |-> -2, ConditionalExpression |-> -1, DecimalLiteral |-> -1,
      DoExpression |-> -2, Identifier |-> -1, ImportExpression |-> -3,
      JSXElement |-> -1, JSXEmptyExpression |-> -1, JSXFragment |-> -1,
      LogicalExpression |-> -1, MemberExpression |-> -1, MetaProperty |-> -1,
      ModuleExpression |-> -2, NewExpression |-> -1, NullLiteral |-> -1,
      NumericLiteral |-> -1, ObjectExpression |-> -2, OptionalCallExpression |-> -1,
      OptionalMemberExpression |-> -1, ParenthesizedExpression |-> -2, PipelineBareFunction |-> -1,
      PipelinePrimaryTopicReference |-> -1, PipelineTopicExpression |-> -1, RecordExpression |-> -1,
      RegExpLiteral |-> -2, SequenceExpression |-> -2, StringLiteral |-> -2,
      Super |-> -1, TaggedTemplateExpression |-> -2, TemplateLiteral |-> -2,
      ThisExpression |-> -1, TopicReference |-> -1, TSAsExpression |-> -1,
      TSInstantiationExpression |-> -1, TSNonNullExpression |-> -1, TSSatisfiesExpression |-> -1,
      TSTypeAssertion |-> -1, TupleExpression |-> -2 ]

\* The table of the earlier version of the locator.
EARLIER_JSX_EXPRESSION_TYPE_OFFSETS ==
    [
      ArrayExpression |-> -2, ArrowFunctionExpression |-> -1, AssignmentExpression |-> -2,
      AwaitExpression |-> -1, BigIntLiteral |-> -1, BindExpression |-> -1,
      BinaryExpression |-> -1, BooleanLiteral |-> -1, CallExpression |-> -1,
      ClassExpression |-> -2, ConditionalExpression |-> -1, DecimalLiteral |-> -1,
      DoExpression |-> -2, Identifier |-> -1, ImportExpression |-> -3,
      JSXElement |-> -1, JSXEmptyExpression |-> -1, JSXFragment |-> -1,
      LogicalExpression |-> -1, MemberExpression |-> -1, MetaProperty |-> -1,
      ModuleExpression |-> -2, NewExpression |-> -1, NullLiteral |-> -1,
      NumericLiteral |-> -1, ObjectExpression |-> -2, OptionalCallExpression |-> -1,
      OptionalMemberExpression |-> -1, ParenthesizedExpression |-> -2, PipelineBareFunction |-> -1,
      PipelinePrimaryTopicReference |-> -1, PipelineTopicExpression |-> -1, RecordExpression |-> -1,
      RegExpLiteral |-> -2, SequenceExpression |-> -2, StringLiteral |-> -2,
      Super |-> -1, TaggedTemplateExpression |-> -2, TemplateLiteral |-> -2,
      ThisExpression |-> -1, TopicReference |-> -1, TSAsExpression |-> -1,
      TSInstantiationExpression |-> -1, TSNonNullExpression |-> -1, TSSatisfiesExpression |-> -1,
      TSTypeAssertion |-> -1, TupleExpression |-> -2 ]

\* What a call gives back: the returned list, or the error it threw.
Returned(list) == [threw |-> FALSE, error |-> "", value |-> list]
Thrown(error) == [threw |-> TRUE, error |-> error, value |-> <<>>]

\* node.end is there: a node the parser gave no end offset has no such field.
HasEnd(node) == "end" \in DOMAIN node

\* typeof x === "number"
TypeofNumber(x) == x \in Int

\* A faulty visitor: a tag without an end offset counts from its start.
TagVisitorUnguarded(node, boundaries) ==
    Append(boundaries, (IF HasEnd(node) THEN node.end ELSE node.start)
                           - (IF node.selfClosing THEN 2 ELSE 1))

\* A faulty visitor: two characters back from the end for every tag.
TagVisitorTwoBack(node, boundaries) ==
    IF HasEnd(node) /\ TypeofNumber(node.end) THEN Append(boundaries, node.end - 2) ELSE boundaries

\* A faulty visitor: the offset of '>' for every tag, self-closing or not.
TagVisitorLastCharacter(node, boundaries) ==
    IF HasEnd(node) /\ TypeofNumber(node.end) THEN Append(boundaries, node.end - 1) ELSE boundaries

\* The visitor of getTagBoundaryPositions, called with one JSXOpeningElement.
TagVisitor(node, boundaries) ==
    IF HasEnd(node) /\ TypeofNumber(node.end)
    THEN IF node.selfClosing
         THEN Append(boundaries, node.end - 2)
         ELSE Append(boundaries, node.end - 1)
    ELSE boundaries

RECURSIVE TagTraverse(_, _)
TagTraverse(nodes, boundaries) ==
    IF nodes = <<>> THEN boundaries
    ELSE TagTraverse(Tail(nodes), TagVisitor(Head(nodes), boundaries))

TagBoundariesOfParsed(parsed) ==
    IF parsed.threw THEN Thrown(parsed.error)
    ELSE Returned(TagTraverse(traverse(parsed.ast), <<>>))

getTagBoundaryPositions(t) == TagBoundariesOfParsed(parse(t))


\* A faulty turn of the loop: an attribute it does not know gets the offset
\* of its start or, failing that, none.
AttributeBoundaryBestEffort(attr) ==
    IF ~HasEnd(attr) \/ attr.end = 0
    THEN Returned(<<attr.start>>)
    ELSE IF attr.type = "JSXSpreadAttribute"
    THEN Returned(<<attr.end - 1>>)
    ELSE IF attr.type = "JSXAttribute"
    THEN IF attr.value.type = "null"
         THEN Returned(<<attr.end>>)
         ELSE IF attr.value.type = "undefined"
         THEN Returned(<<attr.end>>)
         ELSE IF attr.value.type \in {"StringLiteral", "JSXFragment", "JSXElement"}
         THEN Returned(<<attr.end - 1>>)
         ELSE IF attr.value.type = "JSXExpressionContainer"
         THEN IF attr.value.expression.type \in DOMAIN JSX_EXPRESSION_TYPE_OFFSETS
              THEN Returned(<<attr.end
                              + JSX_EXPRESSION_TYPE_OFFSETS[attr.value.expression.type]>>)
              ELSE Thrown("Unexpected JSXExpressionContainer type")
         ELSE Returned(<<attr.end - 1>>)
    ELSE Returned(<<attr.end>>)

\* A faulty turn of the loop: one character back from the end for every
\* expression container, whatever its kind.
AttributeBoundaryFixedWidth(attr) ==
    IF ~HasEnd(attr) \/ attr.end = 0
    THEN Thrown("Unexpected missing end position")
    ELSE IF attr.type = "JSXSpreadAttribute"
    THEN Returned(<<attr.end - 1>>)
    ELSE IF attr.type = "JSXAttribute"
    THEN IF attr.value.type = "null"
         THEN Returned(<<attr.end>>)
         ELSE IF attr.value.type = "undefined"
         THEN Thrown("Unexpected undefined attribute value")
         ELSE IF attr.value.type \in {"StringLiteral", "JSXFragment", "JSXElement"}
         THEN Returned(<<attr.end - 1>>)
         ELSE IF attr.value.type = "JSXExpressionContainer"
         THEN IF attr.value.expression.type \in DOMAIN JSX_EXPRESSION_TYPE_OFFSETS
              THEN Returned(<<attr.end - 1>>)
              ELSE Thrown("Unexpected JSXExpressionContainer type")
         ELSE Thrown("Unexpected JSXAttribute value type")
    ELSE Thrown("Unexpected attribute type")

\* A faulty turn of the loop: a value-less attribute treated like a quoted
\* string, one character back from its end.
AttributeBoundaryBooleanAsString(attr) ==
    IF ~HasEnd(attr) \/ attr.end = 0
    THEN Thrown("Unexpected missing end position")
    ELSE IF attr.type = "JSXSpreadAttribute"
    THEN Returned(<<attr.end - 1>>)
    ELSE IF attr.type = "JSXAttribute"
    THEN IF attr.value.type = "undefined"
         THEN Thrown("Unexpected undefined attribute value")
         ELSE IF attr.value.type \in {"null", "StringLiteral", "JSXFragment", "JSXElement"}
         THEN Returned(<<attr.end - 1>>)
         ELSE IF attr.value.type = "JSXExpressionContainer"
         THEN IF attr.value.expression.type \in DOMAIN JSX_EXPRESSION_TYPE_OFFSETS
              THEN Returned(<<attr.end
                              + JSX_EXPRESSION_TYPE_OFFSETS[attr.value.expression.type]>>)
              ELSE Thrown("Unexpected JSXExpressionContainer type")
         ELSE Thrown("Unexpected JSXAttribute value type")
    ELSE Thrown("Unexpected attribute type")

\* One turn of the loop over path.node.attributes: the offset pushed, or the
\* error thrown.
AttributeBoundary(attr) ==
    IF ~HasEnd(attr) \/ attr.end = 0
    THEN Thrown("Unexpected missing end position")
    ELSE IF attr.type = "JSXSpreadAttribute"
    THEN Returned(<<attr.end - 1>>)
    ELSE IF attr.type = "JSXAttribute"
    THEN IF attr.value.type = "null"
         THEN Returned(<<attr.end>>)
         ELSE IF attr.value.type = "undefined"
         THEN Thrown("Unexpected undefined attribute value")
         ELSE IF attr.value.type \in {"StringLiteral", "JSXFragment", "JSXElement"}
         THEN Returned(<<attr.end - 1>>)
         ELSE IF attr.value.type = "JSXExpressionContainer"
         THEN LET exprType == attr.value.expression.type
              IN  IF exprType \in DOMAIN JSX_EXPRESSION_TYPE_OFFSETS
                  THEN Returned(<<attr.end + JSX_EXPRESSION_TYPE_OFFSETS[exprType]>>)
                  ELSE Thrown("Unexpected JSXExpressionContainer type")
         ELSE Thrown("Unexpected JSXAttribute value type")
    ELSE Thrown("Unexpected attribute type")

\* boundaries.push(offset), unless the turn threw.
Pushed(acc, r) == IF r.threw THEN r ELSE Returned(acc.value \o r.value)

RECURSIVE AttributeLoop(_, _)
AttributeLoop(attrs, acc) ==
    IF attrs = <<>> \/ acc.threw THEN acc
    ELSE AttributeLoop(Tail(attrs), Pushed(acc, AttributeBoundary(Head(attrs))))

RECURSIVE AttributeTraverse(_, _)
AttributeTraverse(nodes, acc) ==
    IF nodes = <<>> \/ acc.threw THEN acc
    ELSE AttributeTraverse(Tail(nodes), AttributeLoop(Head(nodes).attributes, acc))

AttributeBoundariesOfParsed(parsed) ==
    IF parsed.threw THEN Thrown(parsed.error)
    ELSE AttributeTraverse(traverse(parsed.ast), Returned(<<>>))

getAttributeBoundaryPositions(t) == AttributeBoundariesOfParsed(parse(t))

(***************************************************************************)
(* The refactored locator (the copy with the getJSXAttributeBoundary       *)
(* helper).  Its offsets are JavaScript numbers, NaN included.             *)
(***************************************************************************)
Number(n) == [isNaN |-> FALSE, n |-> n]
NaN == [isNaN |-> TRUE, n |-> 0]

\* The names every object inherits from Object.prototype: the table is a
\* plain object, and a lookup of one of them gives that member.
ObjectPrototypeMembers ==
    { "constructor", "toString", "toLocaleString", "valueOf", "hasOwnProperty",
      "isPrototypeOf", "propertyIsEnumerable", "__proto__", "__defineGetter__",
      "__defineSetter__", "__lookupGetter__", "__lookupSetter__" }

\* number + function, number + object: a string, the digits of the number
\* followed by the text of the member.
NumberThenMember(n, member) == [isNaN |-> FALSE, n |-> n, string |-> member]

getJSXAttributeBoundary(attr) ==
    IF ~HasEnd(attr) \/ ~TypeofNumber(attr.end)
    THEN Thrown("Unexpected missing end position")
    ELSE IF attr.value.type = "null"
    THEN Returned(<<Number(attr.end)>>)
    ELSE IF attr.value.type = "undefined"
    THEN Thrown("Unexpected undefined attribute value")
    ELSE IF attr.value.type \in {"StringLiteral", "JSXFragment", "JSXElement"}
    THEN Returned(<<Number(attr.end - 1)>>)
    ELSE IF attr.value.type = "JSXExpressionContainer"
    THEN LET exprType == attr.value.expression.type
         IN  \* attr.end + JSX_EXPRESSION_TYPE_OFFSETS[exprType]: number + number,
             \* number + inherited member, number + undefined
             IF exprType \in DOMAIN JSX_EXPRESSION_TYPE_OFFSETS
             THEN Returned(<<Number(attr.end + JSX_EXPRESSION_TYPE_OFFSETS[exprType])>>)
             ELSE IF exprType \in ObjectPrototypeMembers
             THEN Returned(<<NumberThenMember(attr.end, exprType)>>)
             ELSE Returned(<<NaN>>)
    ELSE Thrown("Unexpected JSXAttribute value type")

SwitchAttributeBoundary(attr) ==
    IF ~HasEnd(attr) \/ ~TypeofNumber(attr.end) \/ attr.end = 0
    THEN Thrown("Unexpected missing end position")
    ELSE CASE attr.type = "JSXSpreadAttribute" -> Returned(<<Number(attr.end - 1)>>)
           [] attr.type = "JSXAttribute" -> getJSXAttributeBoundary(attr)
           [] OTHER -> Thrown("Unexpected attribute type")

RECURSIVE SwitchAttributeLoop(_, _)
SwitchAttributeLoop(attrs, acc) ==
    IF attrs = <<>> \/ acc.threw THEN acc
    ELSE SwitchAttributeLoop(Tail(attrs), Pushed(acc, SwitchAttributeBoundary(Head(attrs))))

RECURSIVE SwitchAttributeTraverse(_, _)
SwitchAttributeTraverse(nodes, acc) ==
    IF nodes = <<>> \/ acc.threw THEN acc
    ELSE SwitchAttributeTraverse(Tail(nodes),
                                 SwitchAttributeLoop(Head(nodes).attributes, acc))

SwitchBoundariesOfParsed(parsed) ==
    IF parsed.threw THEN Thrown(parsed.error)
    ELSE SwitchAttributeTraverse(traverse(parsed.ast), Returned(<<>>))

getAttributeBoundaryPositionsSwitch(t) == SwitchBoundariesOfParsed(parse(t))

(***************************************************************************)
(* extension.ts: the result cache.                                         *)
(***************************************************************************)
\* Default value for including tag positions in attribute navigation.
DEFAULT_INCLUDE_TAG_IN_ATTR_NAV == TRUE

\* new LRU({ max: 40 })
CacheMax == 40

\* A text holds UTF-16 code units.  The high surrogates are U+D800 to
\* U+DBFF, the low surrogates U+DC00 to U+DFFF.
HexDigits ==
    {"0", "1", "2", "3", "4", "5", "6", "7", "8", "9", "A", "B", "C", "D", "E", "F"}
HighSurrogates ==
    { "U+D" \o a \o b \o c : a \in {"8", "9", "A", "B"}, b \in HexDigits, c \in HexDigits }
LowSurrogates ==
    { "U+D" \o a \o b \o c : a \in {"C", "D", "E", "F"}, b \in HexDigits, c \in HexDigits }

\* The code unit at i is half of no pair: a high surrogate that no low one
\* follows, or a low surrogate that no high one precedes.
LoneSurrogateAt(t, i) ==
    \/ t[i] \in HighSurrogates /\ ~(i < Len(t) /\ t[i + 1] \in LowSurrogates)
    \/ t[i] \in LowSurrogates /\ ~(i > 1 /\ t[i - 1] \in HighSurrogates)

\* update(text) hashes the UTF-8 encoding of the string: the encoder writes
\* the character U+FFFD in place of a lone surrogate, and a pair as the one
\* character it stands for.
Utf8(t) == [i \in DOMAIN t |-> IF LoneSurrogateAt(t, i) THEN "U+FFFD" ELSE t[i]]

\* A faulty hash: update(text) left out, so every text gets the digest of the
\* empty input.
hashTextNoUpdate(t) == [sha1 |-> <<>>]

\* createHash("sha1").update(text).digest("hex"): the digest stands for the
\* bytes it was computed from (distinct encodings, distinct digests).
hashText(t) == [sha1 |-> Utf8(t)]

\* Function values: the two locate functions, which the commands pass, stand
\* under their names; the arrow functions wrapping them have no name.
ArrowFns ==
    { "(text) => getTagBoundaryPositions(text)",
      "(text) => getAttributeBoundaryPositions(text)" }

\* fn.name: empty for an arrow function passed as an argument.
NameOf(fn) == IF fn \in ArrowFns THEN "" ELSE fn

\* A faulty name: every function taken for an anonymous one.
FunctionNameIgnored(fn) == "anonymous"

\* fn.name || "anonymous"
FunctionName(fn) == IF NameOf(fn) = "" THEN "anonymous" ELSE NameOf(fn)

\* A faulty key: the content hash alone, the function's name left out.
CacheKeyOfTextOnly(t, fn) == <<hashText(t), "anonymous">>

\* hashText(text) + ":" + fnName
CacheKey(t, fn) == <<hashText(t), FunctionName(fn)>>

\* fn(text) for the boundary functions the commands pass.
CallBoundaryFn(fn, t) ==
    CASE fn = "getTagBoundaryPositions" -> getTagBoundaryPositions(t)
      [] fn = "getAttributeBoundaryPositions" -> getAttributeBoundaryPositions(t)
      [] fn = "(text) => getTagBoundaryPositions(text)" -> getTagBoundaryPositions(t)
      [] fn = "(text) => getAttributeBoundaryPositions(text)"
            -> getAttributeBoundaryPositions(t)

\* Position of a key in the cache, 0 when absent.
LruIndexOf(cache, key) ==
    IF \E i \in DOMAIN cache : cache[i].key = key
    THEN CHOOSE i \in DOMAIN cache : cache[i].key = key
    ELSE 0

LruWithout(cache, i) == SubSeq(cache, 1, i - 1) \o SubSeq(cache, i + 1, Len(cache))

\* A faulty lookup: the entry is found but keeps its place, so the cache
\* evicts by age of insertion.
LruGetWithoutRefresh(cache, key) ==
    IF LruIndexOf(cache, key) = 0
    THEN [hit |-> FALSE, value |-> <<>>, cache |-> cache]
    ELSE [hit |-> TRUE, value |-> cache[LruIndexOf(cache, key)].value, cache |-> cache]

\* boundaryCache.get(key): the entry moves to the front when it is there.
LruGet(cache, key) ==
    LET i == LruIndexOf(cache, key)
    IN  IF i = 0
        THEN [hit |-> FALSE, value |-> <<>>, cache |-> cache]
        ELSE [hit |-> TRUE, value |-> cache[i].value,
              cache |-> <<cache[i]>> \o LruWithout(cache, i)]

\* A faulty store: a full cache is emptied to make room.
LruSetClearsWhenFull(cache, key, value) ==
    IF LruIndexOf(cache, key) = 0 /\ Len(cache) >= CacheMax
    THEN <<[key |-> key, value |-> value]>>
    ELSE <<[key |-> key, value |-> value]>>
            \o (IF LruIndexOf(cache, key) = 0 THEN cache
                ELSE LruWithout(cache, LruIndexOf(cache, key)))

\* A faulty store: the key is taken to be absent, as it was when looked up.
LruSetAssumingAbsent(cache, key, value) ==
    IF Len(cache) >= CacheMax
    THEN <<[key |-> key, value |-> value]>> \o SubSeq(cache, 1, CacheMax - 1)
    ELSE <<[key |-> key, value |-> value]>> \o cache

\* boundaryCache.set(key, value): the entry goes to the front; beyond max
\* the entry at the back is dropped.
LruSet(cache, key, value) ==
    LET i == LruIndexOf(cache, key)
        rest == IF i = 0 THEN cache ELSE LruWithout(cache, i)
        grown == <<[key |-> key, value |-> value]>> \o rest
    IN  IF Len(grown) > CacheMax THEN SubSeq(grown, 1, CacheMax) ELSE grown

\* A faulty computation: an error of fn is caught and the empty list stored.
ComputedAndStoredCatching(cache, key, computed) ==
    [threw |-> FALSE, error |-> "", value |-> computed.value, hit |-> FALSE,
     cache |-> LruSet(cache, key, computed.value)]

\* entry = fn(text); boundaryCache.set(key, entry)
ComputedAndStored(cache, key, computed) ==
    IF computed.threw
    THEN [threw |-> TRUE, error |-> computed.error, value |-> <<>>, hit |-> FALSE,
          cache |-> cache]
    ELSE [threw |-> FALSE, error |-> "", value |-> computed.value, hit |-> FALSE,
          cache |-> LruSet(cache, key, computed.value)]

\* A faulty lookup: if (!entry || entry.length === 0), an empty cached list
\* taken for a miss.
getCachedBoundariesEmptyIsMiss(cache, t, fn) ==
    IF LruGet(cache, CacheKey(t, fn)).hit /\ LruGet(cache, CacheKey(t, fn)).value # <<>>
    THEN [threw |-> FALSE, error |-> "", hit |-> TRUE,
          value |-> LruGet(cache, CacheKey(t, fn)).value,
          cache |-> LruGet(cache, CacheKey(t, fn)).cache]
    ELSE ComputedAndStored(cache, CacheKey(t, fn), CallBoundaryFn(fn, t))

\* getCachedBoundaries from the key on: let entry = boundaryCache.get(key);
\* if (!entry) { entry = fn(text); boundaryCache.set(key, entry) } return entry
LookedUpByKey(cache, key, t, fn) ==
    IF LruGet(cache, key).hit
    THEN [threw |-> FALSE, error |-> "", hit |-> TRUE,
          value |-> LruGet(cache, key).value,
          cache |-> LruGet(cache, key).cache]
    ELSE ComputedAndStored(cache, key, CallBoundaryFn(fn, t))

\* getCachedBoundaries(text, fn) on a cache: what it returns or throws,
\* whether the cache served it, and the cache it leaves.
getCachedBoundaries(cache, t, fn) == LookedUpByKey(cache, CacheKey(t, fn), t, fn)

(***************************************************************************)
(* extension.ts: jumpToBoundary.                                           *)
(***************************************************************************)
\* Arrays are objects: alias is the place in the cache of the entry whose
\* array the local positions is, NoAlias when positions is an array of its own.
NoAlias == 0

\* let positions = [] before the loop over boundaryFns.
NothingGathered(cache) ==
    [threw |-> FALSE, error |-> "", positions |-> <<>>, cache |-> cache, served |-> <<>>,
     alias |-> NoAlias]

\* positions = positions.concat(got): one turn of the loop, got being what
\* getCachedBoundaries gave.
Concatenated(acc, got) ==
    [threw |-> got.threw, error |-> got.error,
     positions |-> IF got.threw THEN <<>> ELSE acc.positions \o got.value,
     cache |-> got.cache,
     served |-> Append(acc.served,
                       IF got.threw THEN "threw" ELSE IF got.hit THEN "hit" ELSE "miss"),
     \* concat returns a new array
     alias |-> NoAlias]

\* for (const fn of boundaryFns) positions = positions.concat(getCachedBoundaries(text, fn))
RECURSIVE GatherPositions(_, _, _)
GatherPositions(fns, t, acc) ==
    IF fns = <<>> \/ acc.threw THEN acc
    ELSE GatherPositions(Tail(fns), t,
                         Concatenated(acc, getCachedBoundaries(acc.cache, t, Head(fns))))

\* A faulty merge: every occurrence kept.
KeepDuplicates(list) == list

\* Array.from(new Set(positions)): first occurrences, in order.
RECURSIVE Deduplicate(_)
Deduplicate(list) ==
    IF list = <<>> THEN <<>>
    ELSE LET front == Deduplicate(SubSeq(list, 1, Len(list) - 1))
             x == list[Len(list)]
         IN  IF x \in Range(front) THEN front ELSE Append(front, x)

RECURSIVE InsertSorted(_, _)
InsertSorted(sorted, x) ==
    IF sorted = <<>> THEN <<x>>
    ELSE IF x < Head(sorted) THEN <<x>> \o sorted
    ELSE <<Head(sorted)>> \o InsertSorted(Tail(sorted), x)

\* A faulty sort: the list left in the order it was merged in.
Unsorted(list) == list

\* positions.sort((a, b) => a - b)
RECURSIVE SortAscending(_)
SortAscending(list) ==
    IF list = <<>> THEN <<>>
    ELSE InsertSorted(SortAscending(Tail(list)), Head(list))

RECURSIVE Reverse(_)
Reverse(list) ==
    IF list = <<>> THEN <<>> ELSE Append(Reverse(Tail(list)), Head(list))

Found(x) == [found |-> TRUE, value |-> x]
Undefined == [found |-> FALSE, value |-> 0]

\* A faulty search: a boundary at the cursor itself is accepted.
RECURSIVE FindAtOrAfter(_, _)
FindAtOrAfter(list, flatPosition) ==
    IF list = <<>> THEN Undefined
    ELSE IF Head(list) >= flatPosition THEN Found(Head(list))
    ELSE FindAtOrAfter(Tail(list), flatPosition)

\* A faulty search: the start of the document when nothing lies before the
\* cursor.
RECURSIVE FindBeforeOrStart(_, _)
FindBeforeOrStart(reversed, flatPosition) ==
    IF reversed = <<>> THEN Found(0)
    ELSE IF Head(reversed) < flatPosition THEN Found(Head(reversed))
    ELSE FindBeforeOrStart(Tail(reversed), flatPosition)

\* A faulty search: past the last boundary it starts again from the first.
FindAfterWrapping(list, flatPosition) ==
    IF \E i \in DOMAIN list : list[i] > flatPosition
    THEN Found(list[CHOOSE i \in DOMAIN list :
                       /\ list[i] > flatPosition
                       /\ \A j \in 1 .. i - 1 : list[j] <= flatPosition])
    ELSE IF list = <<>> THEN Undefined ELSE Found(list[1])

\* A faulty search: the last boundary after the cursor instead of the first.
FindLastAfter(list, flatPosition) ==
    IF \E i \in DOMAIN list : list[i] > flatPosition
    THEN Found(list[CHOOSE i \in DOMAIN list :
                       /\ list[i] > flatPosition
                       /\ \A j \in i + 1 .. Len(list) : list[j] <= flatPosition])
    ELSE Undefined

\* positions.find((o) => o > flatPosition)
RECURSIVE FindAfter(_, _)
FindAfter(list, flatPosition) ==
    IF list = <<>> THEN Undefined
    ELSE IF Head(list) > flatPosition THEN Found(Head(list))
    ELSE FindAfter(Tail(list), flatPosition)

\* [...positions].reverse().find((o) => o < flatPosition)
RECURSIVE FindBefore(_, _)
FindBefore(reversed, flatPosition) ==
    IF reversed = <<>> THEN Undefined
    ELSE IF Head(reversed) < flatPosition THEN Found(Head(reversed))
    ELSE FindBefore(Tail(reversed), flatPosition)

TargetPosition(positions, flatPosition, direction) ==
    IF direction = "next"
    THEN FindAfter(positions, flatPosition)
    ELSE FindBefore(Reverse(positions), flatPosition)

\* document.offsetAt(document.positionAt(offset)): offsets are kept inside
\* the document.
positionAt(t, offset) == Max(0, Min(offset, Len(t)))

\* History of uses: a lookup that hits and a store each make their key the
\* most recently used one; a lookup whose computation throws uses nothing.
RECURSIVE WithoutKey(_, _)
WithoutKey(keys, key) ==
    IF keys = <<>> THEN <<>>
    ELSE IF Head(keys) = key THEN WithoutKey(Tail(keys), key)
    ELSE <<Head(keys)>> \o WithoutKey(Tail(keys), key)

RECURSIVE UsedKeys(_, _, _)
UsedKeys(fns, t, used) ==
    IF fns = <<>> \/ CallBoundaryFn(Head(fns), t).threw THEN used
    ELSE UsedKeys(Tail(fns), t,
                  <<CacheKey(t, Head(fns))>> \o WithoutKey(used, CacheKey(t, Head(fns))))

NoCommand ==
    [command |-> "none", fns |-> <<>>, direction |-> "", from |-> 0, returned |-> FALSE,
     threw |-> FALSE, error |-> "", served |-> <<>>, positions |-> <<>>,
     target |-> Undefined]

\* The part of jumpToBoundary after the positions are sorted: the target is
\* looked up and, when there is one, the selection moves to it.
MoveToTarget(command, boundaryFns, direction, served, positions, flatPosition, targetPosition) ==
    /\ cursor' = IF targetPosition.found
                 THEN positionAt(text, targetPosition.value)
                 ELSE cursor
    /\ last' = [command |-> command, fns |-> boundaryFns, direction |-> direction,
                from |-> flatPosition, returned |-> TRUE, threw |-> FALSE, error |-> "",
                served |-> served, positions |-> positions, target |-> targetPosition]

\* The part of jumpToBoundary after the loop over boundaryFns.
JumpWithPositions(command, boundaryFns, direction, served, positions) ==
    MoveToTarget(command, boundaryFns, direction, served, positions, cursor,
                 TargetPosition(positions, cursor, direction))

\* Array.from(new Set(positions)): a new array whatever positions was.
AliasOfArrayFrom(alias) == NoAlias

\* positions.sort(...) sorts the array in place: the cache entry whose array
\* it is gets sorted with it.
SortedInPlace(cache, alias) ==
    IF alias = NoAlias THEN cache
    ELSE [cache EXCEPT ![alias].value = SortAscending(@)]

\* A faulty command: no copies, the array the last lookup returned is sorted
\* as it is (positions = getCachedBoundaries(text, fn); positions.sort(...)).
JumpWithGatheredInPlace(command, boundaryFns, direction, gathered) ==
    /\ boundaryCache' = IF gathered.threw THEN gathered.cache
                        ELSE SortedInPlace(gathered.cache, 1)
    /\ IF gathered.threw
       THEN /\ cursor' = cursor
            /\ last' = [command |-> command, fns |-> boundaryFns, direction |-> direction,
                        from |-> cursor, returned |-> FALSE, threw |-> TRUE,
                        error |-> gathered.error, served |-> gathered.served,
                        positions |-> <<>>, target |-> Undefined]
       ELSE JumpWithPositions(command, boundaryFns, direction, gathered.served,
                              SortAscending(Deduplicate(gathered.positions)))

\* gathered: what the loop over boundaryFns left.
JumpWithGathered(command, boundaryFns, direction, gathered) ==
    /\ boundaryCache' = SortedInPlace(gathered.cache, AliasOfArrayFrom(gathered.alias))
    /\ IF gathered.threw
       THEN /\ cursor' = cursor
            /\ last' = [command |-> command, fns |-> boundaryFns, direction |-> direction,
                        from |-> cursor, returned |-> FALSE, threw |-> TRUE,
                        error |-> gathered.error, served |-> gathered.served,
                        positions |-> <<>>, target |-> Undefined]
       ELSE JumpWithPositions(command, boundaryFns, direction, gathered.served,
                              SortAscending(Deduplicate(gathered.positions)))

jumpToBoundary(command, boundaryFns, direction) ==
    IF ~activeEditor
    THEN /\ last' = [NoCommand EXCEPT !.command = command, !.fns = boundaryFns,
                                      !.direction = direction, !.returned = TRUE]
         /\ UNCHANGED <<text, cursor, activeEditor, includeTagSetting, boundaryCache,
                        recency, input, output>>
    ELSE /\ JumpWithGathered(command, boundaryFns, direction,
                             GatherPositions(boundaryFns, text,
                                             NothingGathered(boundaryCache)))
         /\ recency' = UsedKeys(boundaryFns, text, recency)
         /\ UNCHANGED <<text, activeEditor, includeTagSetting, input, output>>

\* A faulty reading of the setting: left unset, it counts as false.
IncludeTagUnsetIsFalse == includeTagSetting = "true"

\* config.get("includeTagPositionsInAttributeNavigation", DEFAULT_INCLUDE_TAG_IN_ATTR_NAV)
IncludeTag ==
    IF includeTagSetting = "unset" THEN DEFAULT_INCLUDE_TAG_IN_ATTR_NAV
    ELSE includeTagSetting = "true"

AttributeFns ==
    IF IncludeTag
    THEN <<"getAttributeBoundaryPositions", "getTagBoundaryPositions">>
    ELSE <<"getAttributeBoundaryPositions">>

\* A faulty registration: the tag command gathers the attribute boundaries
\* too.
jumpForwardTagWithAttributes ==
    jumpToBoundary("tag-jumper.jumpForwardTag",
                   <<"getAttributeBoundaryPositions", "getTagBoundaryPositions">>, "next")

jumpForwardTag ==
    jumpToBoundary("tag-jumper.jumpForwardTag", <<"getTagBoundaryPositions">>, "next")

jumpBackwardTag ==
    jumpToBoundary("tag-jumper.jumpBackwardTag", <<"getTagBoundaryPositions">>, "prev")

jumpForwardAttribute ==
    jumpToBoundary("tag-jumper.jumpForwardAttribute", AttributeFns, "next")

jumpBackwardAttribute ==
    jumpToBoundary("tag-jumper.jumpBackwardAttribute", AttributeFns, "prev")

(***************************************************************************)
(* offset-locator.ts: the scanner that reads the text character by         *)
(* character.  Offsets are 0-based: text[i] is the character CharAt(t, i). *)
(***************************************************************************)
NoTag == [found |-> FALSE, start |-> 0, end |-> 0]

\* inSingle, inDouble, inJSBlock and prevChar before the first character.
ScanStart == [inSingle |-> FALSE, inDouble |-> FALSE, inJSBlock |-> FALSE, prevChar |-> ""]

\* The JS block flag after the character c: set by '{' after '=', reset by
\* '}', outside quotes only.
BlockToggled(q, c) ==
    IF ~q.inSingle /\ ~q.inDouble
    THEN IF c = "{" /\ q.prevChar = "=" THEN TRUE
         ELSE IF c = "}" /\ q.inJSBlock THEN FALSE
         ELSE q.inJSBlock
    ELSE q.inJSBlock

\* The flags after the character c: the JS block first, then the quotes,
\* which toggle outside a JS block unless the previous character is '\'.
Toggled(q, c) ==
    [inJSBlock |-> BlockToggled(q, c),
     inSingle |-> IF ~BlockToggled(q, c) /\ c = "'" /\ ~q.inDouble /\ q.prevChar # "\\"
                  THEN ~q.inSingle ELSE q.inSingle,
     inDouble |-> IF /\ ~BlockToggled(q, c)
                     /\ ~(c = "'" /\ ~q.inDouble /\ q.prevChar # "\\")
                     /\ c = "\"" /\ ~q.inSingle /\ q.prevChar # "\\"
                  THEN ~q.inDouble ELSE q.inDouble,
     prevChar |-> q.prevChar]

InCode(q) == ~q.inSingle /\ ~q.inDouble /\ ~q.inJSBlock

\* The inner loop: from j on, the first '>' outside quotes and JS blocks.
RECURSIVE FindTagEnd(_, _, _, _)
FindTagEnd(t, i, j, q) ==
    IF j >= Len(t) THEN NoTag
    ELSE IF t[j + 1] = ">" /\ InCode(Toggled(q, t[j + 1]))
    THEN [found |-> TRUE, start |-> i, end |-> j]
    ELSE FindTagEnd(t, i, j + 1, [Toggled(q, t[j + 1]) EXCEPT !.prevChar = t[j + 1]])

\* The outer loop: from i on, the first '<' outside quotes and JS blocks.
RECURSIVE FindTagStart(_, _, _)
FindTagStart(t, i, q) ==
    IF i >= Len(t) THEN NoTag
    ELSE IF t[i + 1] = "<" /\ InCode(Toggled(q, t[i + 1]))
    THEN FindTagEnd(t, i, i + 1, ScanStart)
    ELSE FindTagStart(t, i + 1, [Toggled(q, t[i + 1]) EXCEPT !.prevChar = t[i + 1]])

findNextTag(t, startPos) ==
    IF startPos >= Len(t) THEN NoTag ELSE FindTagStart(t, startPos, ScanStart)

\* The characters trim() strips: the white space and the line terminators of
\* ECMAScript.  Tab, vertical tab, form feed, space, no-break space, byte
\* order mark and the space separators of Unicode; line feed, carriage
\* return, line separator and paragraph separator.
WhiteSpace ==
    { "\t", "U+000B", "\f", " ", "U+00A0", "U+FEFF",
      "U+1680", "U+2000", "U+2001", "U+2002", "U+2003", "U+2004", "U+2005", "U+2006",
      "U+2007", "U+2008", "U+2009", "U+200A", "U+202F", "U+205F", "U+3000",
      "\n", "\r", "U+2028", "U+2029" }

\* text.slice(from, to).trim()
RECURSIVE Trimmed(_, _, _)
Trimmed(t, from, to) ==
    IF from >= to THEN <<>>
    ELSE IF t[from + 1] \in WhiteSpace THEN Trimmed(t, from + 1, to)
    ELSE IF t[to] \in WhiteSpace THEN Trimmed(t, from, to - 1)
    ELSE SubSeq(t, from + 1, to)

StartsWith(content, prefix) ==
    Len(content) >= Len(prefix) /\ SubSeq(content, 1, Len(prefix)) = prefix

\* The type of the tag with the trimmed content tagContent.
ElementType(tagContent) ==
    IF tagContent # <<>> /\ tagContent[Len(tagContent)] = "/" THEN "self"
    ELSE IF StartsWith(tagContent, <<"/">>) THEN "close"
    ELSE IF StartsWith(tagContent, <<"!", "-", "-">>) THEN "comment"
    ELSE "open"

\* bounds: what findNextTag returned.
Classified(t, bounds) ==
    IF ~bounds.found THEN [found |-> FALSE, type |-> "", start |-> 0, end |-> 0]
    ELSE [found |-> TRUE, type |-> ElementType(Trimmed(t, bounds.start + 1, bounds.end)),
          start |-> bounds.start, end |-> bounds.end]

classifyNextElement(t, startPos) == Classified(t, findNextTag(t, startPos))

\* A faulty skip: the scan goes on from the start of the skipped tag.
CursorAtStart(next) == next.start

\* cursor = end + 1
CursorPast(next) == next.end + 1

\* The loop of getBoundaryOffset with next the element classified from
\* cursor; skipped counts the tags skipped so far, guard tells that the loop
\* was left at 'cursor <= lastEnd'.
RECURSIVE BoundaryScan(_, _, _, _)
BoundaryLoop(t, next, lastEnd, skipped) ==
    IF ~next.found THEN [found |-> FALSE, value |-> 0, skipped |-> skipped, guard |-> FALSE]
    ELSE IF next.type = "self"
    THEN [found |-> TRUE, value |-> next.end - 1, skipped |-> skipped, guard |-> FALSE]
    ELSE IF next.type = "open"
    THEN [found |-> TRUE, value |-> next.end, skipped |-> skipped, guard |-> FALSE]
    ELSE IF CursorPast(next) <= lastEnd
    THEN [found |-> FALSE, value |-> 0, skipped |-> skipped + 1, guard |-> TRUE]
    ELSE BoundaryScan(t, CursorPast(next), next.end, skipped + 1)

BoundaryScan(t, cursorAt, lastEnd, skipped) ==
    BoundaryLoop(t, classifyNextElement(t, cursorAt), lastEnd, skipped)

getBoundaryOffset(t, position) == BoundaryScan(t, position, -1, 0)

\* The texts given to the scanner.
ScanTexts ==
    {
      \* <h1>Title</h1>
      <<"<", "h", "1", ">", "T", "i", "t", "l", "e", "<", "/", "h", "1", ">">>,
      \* <br/>
      <<"<", "b", "r", "/", ">">>,
      \* <img />
      <<"<", "i", "m", "g", " ", "/", ">">>,
      \* <div><hr/><p></p>
      <<"<", "d", "i", "v", ">", "<", "h", "r", "/", ">", "<", "p", ">", "<", "/",
        "p", ">">>,
      \* </closed><span>
      <<"<", "/", "c", "l", "o", "s", "e", "d", ">", "<", "s", "p", "a", "n", ">">>,
      \* <div></div><span>
      <<"<", "d", "i", "v", ">", "<", "/", "d", "i", "v", ">", "<", "s", "p", "a",
        "n", ">">>,
      \* no tags here
      <<"n", "o", " ", "t", "a", "g", "s", " ", "h", "e", "r", "e">>,
      \* <input text="<><>" />
      <<"<", "i", "n", "p", "u", "t", " ", "t", "e", "x", "t", "=", "\"", "<", ">",
        "<", ">", "\"", " ", "/", ">">>,
      \* <input text={'><'} />
      <<"<", "i", "n", "p", "u", "t", " ", "t", "e", "x", "t", "=", "{", "'", ">",
        "<", "'", "}", " ", "/", ">">>,
      \* <!-- c --><a>
      <<"<", "!", "-", "-", " ", "c", " ", "-", "-", ">", "<", "a", ">">>,
      \* <></>
      <<"<", ">", "<", "/", ">">>,
      \* <a b={{}>1}/>
      <<"<", "a", " ", "b", "=", "{", "{", "}", ">", "1", "}", "/", ">">>,
      \* <p>it's</p><b>
      <<"<", "p", ">", "i", "t", "'", "s", "<", "/", "p", ">", "<", "b", ">">>,
      \* <a
      <<"<", "a">>,
      \* </a></b>
      <<"<", "/", "a", ">", "<", "/", "b", ">">>,
      \* <p>one</p>
      <<"<", "p", ">", "o", "n", "e", "<", "/", "p", ">">>,
      \* a closing tag and a self-closing tag in a document with CRLF line
      \* ends: <CRLF/a>CRLF<b/>
      <<"<", "\r", "\n", "/", "a", ">", "\r", "\n", "<", "b", "/", ">">>,
      \* <FF!--x--><b>
      <<"<", "\f", "!", "-", "-", "x", "-", "-", ">", "<", "b", ">">>,
      \* a closing tag written with a vertical tab and a no-break space:
      \* <VT/aNBSP><b>
      <<"<", "U+000B", "/", "a", "U+00A0", ">", "<", "b", ">">> }

(***************************************************************************)
(* Initial values.                                                         *)
(***************************************************************************)
NotCalled == [fn |-> "none", result |-> Returned(<<>>)]

EditorIdle ==
    /\ text = <<>>
    /\ cursor = 0
    /\ activeEditor = FALSE
    /\ includeTagSetting = "unset"
    /\ boundaryCache = <<>>
    /\ last = NoCommand
    /\ recency = <<>>
    /\ everHit = {}

editorVars ==
    <<text, cursor, activeEditor, includeTagSetting, boundaryCache, last, recency, everHit>>

(***************************************************************************)
(* The locate functions called directly on a text.                         *)
(***************************************************************************)
LocateTagBoundaries ==
    /\ output' = [fn |-> "getTagBoundaryPositions",
                  result |-> getTagBoundaryPositions(input)]
    /\ UNCHANGED <<input, editorVars>>

LocateAttributeBoundaries ==
    /\ output' = [fn |-> "getAttributeBoundaryPositions",
                  result |-> getAttributeBoundaryPositions(input)]
    /\ UNCHANGED <<input, editorVars>>

LocateAttributeBoundariesSwitch ==
    /\ output' = [fn |-> "getAttributeBoundaryPositionsSwitch",
                  result |-> getAttributeBoundaryPositionsSwitch(input)]
    /\ UNCHANGED <<input, editorVars>>

ExtractInit ==
    /\ input \in AllTexts
    /\ output = NotCalled
    /\ EditorIdle

ExtractNext ==
    \/ LocateTagBoundaries
    \/ LocateAttributeBoundaries
    \/ LocateAttributeBoundariesSwitch

SpecExtract == ExtractInit /\ [][ExtractNext]_vars

(***************************************************************************)
(* Vocabulary of the properties.                                           *)
(***************************************************************************)
\* The character at a 0-based offset of a text.
CharAt(t, offset) == t[offset + 1]

Letters ==
    { "a", "b", "c", "d", "e", "f", "g", "h", "i", "j", "k", "l", "m",
      "n", "o", "p", "q", "r", "s", "t", "u", "v", "w", "x", "y", "z" }

\* The opening and self-closing tags of a well-formed text, as the parser
\* reports them, and the offsets at which a tag starts in the text itself.
OpeningTagsOf(t) == traverse(parse(t).ast)
TagStartsIn(t) ==
    { i \in 0 .. Len(t) - 2 : CharAt(t, i) = "<" /\ CharAt(t, i + 1) \in Letters }

RECURSIVE AttributesIn(_)
AttributesIn(nodes) ==
    IF nodes = <<>> THEN <<>> ELSE Head(nodes).attributes \o AttributesIn(Tail(nodes))

\* Every attribute of every tag, in the order the extractor meets them.
AttributesOf(t) == AttributesIn(OpeningTagsOf(t))

IsExpressionContainer(attr) ==
    attr.type = "JSXAttribute" /\ attr.value.type = "JSXExpressionContainer"

HasUnsupportedKind(t) ==
    /\ t \in WellFormedTexts
    /\ \E i \in DOMAIN AttributesOf(t) :
          /\ IsExpressionContainer(AttributesOf(t)[i])
          /\ AttributesOf(t)[i].value.expression.type \notin DOMAIN JSX_EXPRESSION_TYPE_OFFSETS

StrictlyAscending(list) ==
    \A i \in 1 .. Len(list) - 1 : list[i] < list[i + 1]
DuplicateFree(list) ==
    \A i, j \in DOMAIN list : i # j => list[i] # list[j]
WithinText(list, t) ==
    \A i \in DOMAIN list : 0 <= list[i] /\ list[i] < Len(t)

TagsReturned == output.fn = "getTagBoundaryPositions" /\ ~output.result.threw
AttributesReturned == output.fn = "getAttributeBoundaryPositions" /\ ~output.result.threw

(***************************************************************************)
(* Properties of the locate functions.                                     *)
(***************************************************************************)
\* C1: every attribute whose value is an expression container yields exactly
\* attr.end + w(kind), w(kind) the table entry of the expression's kind; the
\* entries are all in {-1, -2, -3}; the offset is fixed by attr.end and the
\* kind, whatever stands between the braces.
C1_ExpressionOffsetFromTable ==
    /\ \A k \in DOMAIN JSX_EXPRESSION_TYPE_OFFSETS :
          JSX_EXPRESSION_TYPE_OFFSETS[k] \in {-1, -2, -3}
    /\ AttributesReturned =>
          /\ Len(output.result.value) = Len(AttributesOf(input))
          /\ \A i \in DOMAIN AttributesOf(input) :
                LET attr == AttributesOf(input)[i]
                IN  IsExpressionContainer(attr) =>
                      /\ CharAt(input, attr.end - 1) = "}"
                      /\ output.result.value[i]
                           = attr.end + JSX_EXPRESSION_TYPE_OFFSETS[attr.value.expression.type]

C1_Witness ==
    /\ AttributesReturned
    /\ \E i \in DOMAIN AttributesOf(input) :
          /\ IsExpressionContainer(AttributesOf(input)[i])
          /\ AttributesOf(input)[i].value.expression.type = "ArrayExpression"
          /\ output.result.value[i] = AttributesOf(input)[i].end - 2

\* C2: a text with an attribute whose expression kind is absent from the
\* table makes attribute extraction raise and return no list, in every copy
\* of the extractor.
C2_UnsupportedKindRaises ==
    ( /\ output.fn \in {"getAttributeBoundaryPositions", "getAttributeBoundaryPositionsSwitch"}
      /\ HasUnsupportedKind(input) )
    => (output.result.threw /\ output.result.value = <<>>)

\* C3: one offset per open or self-closing tag and none for a closing tag:
\* the offset of the '/' of '/>' (end - 2) for a self-closing tag, the offset
\* of '>' (end - 1) for an open tag; "<br/>" yields 3.
C3_TagBoundaries ==
    TagsReturned =>
        LET tags == OpeningTagsOf(input)
            list == output.result.value
        IN  /\ Len(list) = Cardinality(TagStartsIn(input))
            /\ Len(list) = Len(tags)
            /\ \A i \in DOMAIN tags :
                  /\ tags[i].start \in TagStartsIn(input)
                  /\ IF tags[i].selfClosing
                     THEN /\ list[i] = tags[i].end - 2
                          /\ CharAt(input, list[i]) = "/"
                          /\ CharAt(input, list[i] + 1) = ">"
                     ELSE /\ list[i] = tags[i].end - 1
                          /\ CharAt(input, list[i]) = ">"
                          /\ CharAt(input, list[i] - 1) # "/"
            /\ (input = <<"<", "b", "r", "/", ">">> => list = <<3>>)

C3_Witness ==
    /\ TagsReturned
    /\ \E i, j \in DOMAIN OpeningTagsOf(input) :
          OpeningTagsOf(input)[i].selfClosing /\ ~OpeningTagsOf(input)[j].selfClosing
    /\ \E k \in 0 .. Len(input) - 2 : CharAt(input, k) = "<" /\ CharAt(input, k + 1) = "/"

\* C4: an attribute that is no expression container yields exactly one
\* offset: attr.end for a value-less attribute; attr.end - 1 for a spread
\* attribute, a quoted string and a value that is directly an element or
\* fragment.
C4_PlainAttributeBoundaries ==
    AttributesReturned =>
        /\ Len(output.result.value) = Len(AttributesOf(input))
        /\ \A i \in DOMAIN AttributesOf(input) :
              LET attr == AttributesOf(input)[i]
                  b == output.result.value[i]
              IN  /\ attr.type = "JSXSpreadAttribute" =>
                        b = attr.end - 1 /\ CharAt(input, b) = "}"
                  /\ (attr.type = "JSXAttribute" /\ attr.value.type = "null") =>
                        /\ b = attr.end
                        /\ CharAt(input, b - 1) \in Letters
                        /\ CharAt(input, b) \notin Letters
                  /\ (attr.type = "JSXAttribute" /\ attr.value.type = "StringLiteral") =>
                        b = attr.end - 1 /\ CharAt(input, b) = "\""
                  /\ (attr.type = "JSXAttribute"
                        /\ attr.value.type \in {"JSXElement", "JSXFragment"}) =>
                        b = attr.end - 1 /\ CharAt(input, b) = ">"

C4_Witness ==
    /\ AttributesReturned
    /\ \E i, j \in DOMAIN AttributesOf(input) :
          /\ AttributesOf(input)[i].type = "JSXAttribute"
          /\ AttributesOf(input)[i].value.type = "JSXFragment"
          /\ AttributesOf(input)[j].type = "JSXSpreadAttribute"
          /\ output.result.value[j] = AttributesOf(input)[j].end - 1

\* C5: both lists are strictly ascending, duplicate-free and within
\* [0, len(text)), also with a tag nested in an attribute value.  The code
\* pushes in traversal order: getTagBoundaryPositions gives [9, 7] for
\* <a n=<c/>/>, the enclosing tag before the tag inside its attribute.
C5_ListsAscending ==
    (TagsReturned \/ AttributesReturned) =>
        /\ StrictlyAscending(output.result.value)
        /\ DuplicateFree(output.result.value)
        /\ WithinText(output.result.value, input)

(***************************************************************************)
(* The editor session: one document, navigated and edited.                 *)
(***************************************************************************)
\* The documents a session starts from.
NavTexts ==
    { Render(Program(<<>>, <<e>>, 0)) :
        e \in { Element(<<"a">>, <<ElementAttr(<<"n">>, InnerBool), BoolAttr(<<"w">>)>>,
                        TRUE, 0, <<>>, <<>>),
                Element(<<"b", "r">>, <<BoolAttr(<<"v">>)>>, FALSE, 0, <<"t">>, <<InnerSelf>>),
                Element(<<"a">>, <<ExprAttr(<<"e">>, [type |-> "UnaryExpression",
                                                     src |-> <<"!", "c">>])>>,
                        TRUE, 0, <<>>, <<>>) } }
    \cup { <<"x", "=", "1">>, <<"<", "a", ">">>, <<"x", "=">> }

EndsWithNewline(t) == Len(t) > 0 /\ t[Len(t)] = "\n"

\* The user's own actions reset what is remembered of the last command.
UserEdits(t) ==
    /\ activeEditor
    /\ text' = t
    /\ cursor' = Min(cursor, Len(t))
    /\ last' = NoCommand
    /\ UNCHANGED <<activeEditor, includeTagSetting, boundaryCache, recency, everHit, input, output>>

\* A whitespace-only edit: a newline typed at the end of the document.
AppendNewline ==
    /\ ~EndsWithNewline(text)
    /\ UserEdits(text \o <<"\n">>)

\* Undo of that edit: the previous content is back.
UndoEdit ==
    /\ EndsWithNewline(text)
    /\ UserEdits(SubSeq(text, 1, Len(text) - 1))

SetCursor(p) ==
    /\ activeEditor
    /\ p # cursor
    /\ cursor' = p
    /\ last' = NoCommand
    /\ UNCHANGED <<text, activeEditor, includeTagSetting, boundaryCache, recency, everHit,
                   input, output>>

ChangeConfiguration(v) ==
    /\ activeEditor
    /\ v # includeTagSetting
    /\ includeTagSetting' = v
    /\ last' = NoCommand
    /\ UNCHANGED <<text, cursor, activeEditor, boundaryCache, recency, everHit, input, output>>

\* The editor loses or regains the focus: activeTextEditor is undefined or not.
CloseEditor ==
    /\ activeEditor
    /\ activeEditor' = FALSE
    /\ last' = NoCommand
    /\ UNCHANGED <<text, cursor, includeTagSetting, boundaryCache, recency, everHit, input, output>>

FocusEditor ==
    /\ ~activeEditor
    /\ activeEditor' = TRUE
    /\ last' = NoCommand
    /\ UNCHANGED <<text, cursor, includeTagSetting, boundaryCache, recency, everHit, input, output>>

Init ==
    /\ text \in NavTexts
    /\ cursor = 0
    /\ activeEditor = TRUE
    /\ includeTagSetting = "unset"
    /\ boundaryCache = <<>>
    /\ last = NoCommand
    /\ recency = <<>>
    /\ everHit = {}
    /\ input = <<>>
    /\ output = NotCalled

\* The session keeps no history of hits.
Next ==
    \/ jumpForwardTag /\ UNCHANGED everHit
    \/ jumpBackwardTag /\ UNCHANGED everHit
    \/ jumpForwardAttribute /\ UNCHANGED everHit
    \/ jumpBackwardAttribute /\ UNCHANGED everHit
    \/ \E p \in 0 .. Len(text) : SetCursor(p)
    \/ \E v \in {"unset", "true", "false"} : ChangeConfiguration(v)
    \/ AppendNewline
    \/ UndoEdit
    \/ CloseEditor
    \/ FocusEditor

Spec == Init /\ [][Next]_vars

(***************************************************************************)
(* Properties of the navigation commands.                                  *)
(***************************************************************************)
BoundaryFns == {"getTagBoundaryPositions", "getAttributeBoundaryPositions"}

\* A command has just run in the focused editor: last holds its locals and
\* text is the document it read.
Commanded == last.command # "none" /\ activeEditor

\* Every selected locate function returns a list for the document.
AllSelectedReturn ==
    \A i \in DOMAIN last.fns : ~CallBoundaryFn(last.fns[i], text).threw

\* The boundaries of the selected categories, each list computed afresh.
SelectedBoundaries ==
    UNION { Range(CallBoundaryFn(last.fns[i], text).value) : i \in DOMAIN last.fns }

RECURSIVE FreshPositions(_, _)
FreshPositions(fns, t) ==
    IF fns = <<>> THEN <<>>
    ELSE CallBoundaryFn(Head(fns), t).value \o FreshPositions(Tail(fns), t)

BoundaryOnSide ==
    IF last.direction = "next"
    THEN \E b \in SelectedBoundaries : b > last.from
    ELSE \E b \in SelectedBoundaries : b < last.from

\* C6: a forward jump targets the smallest selected boundary strictly after
\* the cursor offset p, a backward jump the largest strictly before p; a
\* boundary equal to p is never chosen; there is no target exactly when no
\* boundary lies strictly on that side of p; the cursor lands on the target.
C6_NearestBoundaryOnSide ==
    (Commanded /\ ~last.threw) =>
        /\ last.target.found <=> BoundaryOnSide
        /\ last.target.found =>
              /\ last.target.value \in SelectedBoundaries
              /\ last.target.value # last.from
              /\ cursor = last.target.value
              /\ IF last.direction = "next"
                 THEN /\ last.target.value > last.from
                      /\ \A b \in SelectedBoundaries :
                            b > last.from => last.target.value <= b
                 ELSE /\ last.target.value < last.from
                      /\ \A b \in SelectedBoundaries :
                            b < last.from => last.target.value >= b

C6_Witness ==
    /\ Commanded
    /\ last.direction = "prev"
    /\ last.from \in SelectedBoundaries
    /\ \E b, c \in SelectedBoundaries : b < c /\ c < last.from
    /\ last.target.found
    /\ cursor < last.from

\* C7: the list a command searches is the set union of the lists of the
\* selected categories: every offset of every selected list occurs in it
\* once, no other offset occurs, and it is strictly ascending, also when a
\* tag boundary and an attribute boundary coincide.
C7_CandidatesAreSortedUnion ==
    (Commanded /\ ~last.threw) =>
        /\ Range(last.positions) = SelectedBoundaries
        /\ StrictlyAscending(last.positions)
        /\ DuplicateFree(last.positions)

C7_Witness ==
    /\ Commanded
    /\ ~last.threw
    /\ Len(last.fns) = 2
    /\ Range(getTagBoundaryPositions(text).value)
          \cap Range(getAttributeBoundaryPositions(text).value) # {}
    /\ Len(last.positions) >= 2
    /\ Len(last.positions) < Len(FreshPositions(last.fns, text))

\* C8: when the selected lists have no boundary in the requested direction,
\* and in particular for every well-formed document without tags, whose
\* lists are both empty, each of the four commands returns without raising
\* an error and the cursor stays where it was.
C8_NoBoundaryLeavesCursor ==
    Commanded =>
        /\ (AllSelectedReturn /\ ~BoundaryOnSide) =>
              /\ last.returned
              /\ ~last.threw
              /\ ~last.target.found
              /\ cursor = last.from
        /\ (text \in WellFormedTexts /\ TagStartsIn(text) = {}) =>
              /\ \A fn \in BoundaryFns : CallBoundaryFn(fn, text) = Returned(<<>>)
              /\ last.returned
              /\ ~last.threw
              /\ last.positions = <<>>
              /\ cursor = last.from

C8_Witness ==
    /\ Commanded
    /\ last.returned
    /\ last.command = "tag-jumper.jumpBackwardAttribute"
    /\ SelectedBoundaries # {}
    /\ last.from > 0
    /\ \A b \in SelectedBoundaries : b >= last.from
    /\ cursor = last.from

\* The documents a session can show.
SessionTexts == NavTexts \cup { t \o <<"\n">> : t \in NavTexts }

SameOutcome(cached, fresh) ==
    /\ cached.threw = fresh.threw
    /\ cached.error = fresh.error
    /\ cached.value = fresh.value

\* C9: whatever commands ran before, getCachedBoundaries(text, fn) returns
\* (or throws) what a fresh fn(text) returns (or throws), for every text and
\* function; and what a command searched and targeted is what the fresh
\* lists give for its text, offset, direction and categories.
C9_CachedEqualsFresh ==
    /\ \A t \in SessionTexts : \A fn \in BoundaryFns :
          SameOutcome(getCachedBoundaries(boundaryCache, t, fn), CallBoundaryFn(fn, t))
    /\ (Commanded /\ ~last.threw) =>
          /\ last.positions = SortAscending(Deduplicate(FreshPositions(last.fns, text)))
          /\ last.target = TargetPosition(last.positions, last.from, last.direction)

C9_Witness ==
    /\ Commanded
    /\ ~last.threw
    /\ last.served = <<"hit", "hit">>
    /\ last.positions # <<>>
    /\ \E i \in DOMAIN boundaryCache : boundaryCache[i].key[1] # hashText(text)
    /\ \E i \in DOMAIN boundaryCache :
          /\ boundaryCache[i].key = CacheKey(text, "getAttributeBoundaryPositions")
          /\ boundaryCache[i].value # getTagBoundaryPositions(text).value

\* A step that is one of the four commands run in the focused editor; last
\* holds the locals of the step before when that was a command too, on the
\* same text.
CommandStep == activeEditor /\ last'.command # "none"

\* The command before this step looked the function up.
LookedUpJustBefore(fn) ==
    /\ last.command # "none"
    /\ \E j \in DOMAIN last.served : last.fns[j] = fn

\* C11 as claimed: on an unchanged text a kind the command before needed is
\* not extracted again: the next command that needs it is served from the
\* cache, whatever the text.
C11_ExtractedOncePerKind ==
    [][CommandStep =>
          \A i \in DOMAIN last'.served :
              LookedUpJustBefore(last'.fns[i]) => last'.served[i] = "hit"]_vars

\* C11 amended: a kind whose extraction returned a list for this text before
\* (the empty list included) is served from the cache by every later
\* command; the extractor runs only for a kind no earlier command obtained.
C11_ReturnedKindServedFromCache ==
    [][CommandStep =>
          \A i \in DOMAIN last'.served :
              /\ CacheKey(text, last'.fns[i]) \in Range(recency)
                    => last'.served[i] = "hit"
              /\ (LookedUpJustBefore(last'.fns[i])
                    /\ ~CallBoundaryFn(last'.fns[i], text).threw)
                    => last'.served[i] = "hit"
              /\ last'.served[i] = "miss"
                    => CacheKey(text, last'.fns[i]) \notin Range(recency)]_vars

C11_Witness ==
    /\ Commanded
    /\ last.served = <<"hit", "hit">>
    /\ last.positions = <<>>
    /\ text \in WellFormedTexts
    /\ Len(boundaryCache) = 2

(***************************************************************************)
(* The session that fills the cache: one document edited again and again,  *)
(* navigated after each edit.                                              *)
(***************************************************************************)
LruText(pad) == Render(LruProgram(pad))

PrefixedText == <<"x", "=">> \o LruText(0)

\* Both lists of the document were asked for, the attribute list first, and
\* each has been served from the cache since.
BothListsCached ==
    /\ Len(boundaryCache) >= 2
    /\ boundaryCache[1].key = CacheKey(text, "getTagBoundaryPositions")
    /\ boundaryCache[2].key = CacheKey(text, "getAttributeBoundaryPositions")
    /\ CacheKey(text, "getTagBoundaryPositions") \in everHit
    /\ CacheKey(text, "getAttributeBoundaryPositions") \in everHit

NeverUsed(t) == \A fn \in BoundaryFns : CacheKey(t, fn) \notin Range(recency)

\* A newline typed at the end of a document navigated before: a content the
\* session has not shown yet.
LruTypeNewline ==
    /\ \E pad \in 0 .. LruPads - 1 :
          /\ text = LruText(pad)
          /\ NeverUsed(LruText(pad + 1))
          /\ BothListsCached
          /\ UserEdits(LruText(pad + 1))

\* Every edit undone: the first content is back.
LruUndoAll ==
    /\ text = LruText(LruPads)
    /\ BothListsCached
    /\ UserEdits(LruText(0))

\* "x=" typed before the markup of the first content.
LruTypePrefix ==
    /\ text = LruText(0)
    /\ NeverUsed(PrefixedText)
    /\ UserEdits(PrefixedText)

LruDeletePrefix ==
    /\ text = PrefixedText
    /\ UserEdits(LruText(0))

InitLRU ==
    /\ text = LruText(0)
    /\ cursor = 0
    /\ activeEditor = TRUE
    /\ includeTagSetting = "unset"
    /\ boundaryCache = <<>>
    /\ last = NoCommand
    /\ recency = <<>>
    /\ everHit = {}
    /\ input = <<>>
    /\ output = NotCalled

\* History of hits: the keys of the lookups the cache served.
HitKeys(fns, t, served) ==
    { CacheKey(t, fns[i]) : i \in { j \in DOMAIN served : served[j] = "hit" } }

\* The command that has just run adds the keys it found in the cache.
RecordHits == everHit' = everHit \cup HitKeys(last'.fns, text, last'.served)

NextLRU ==
    \/ jumpForwardTag /\ RecordHits
    \/ jumpBackwardTag /\ RecordHits
    \/ jumpForwardAttribute /\ RecordHits
    \/ jumpBackwardAttribute /\ RecordHits
    \/ LruTypeNewline
    \/ LruUndoAll
    \/ LruTypePrefix
    \/ LruDeletePrefix

SpecLRU == InitLRU /\ [][NextLRU]_vars

CachedKeys == { boundaryCache[i].key : i \in DOMAIN boundaryCache }

\* The n keys used most recently, a hit lookup and a store each being a use.
MostRecentlyUsed(n) == { recency[i] : i \in 1 .. Min(n, Len(recency)) }

\* C10: the cache never holds more than its capacity of 40 entries, one per
\* key; the keys it holds are the 40 most recently used ones, a hit lookup
\* and a store each counting as a use: a store into the full cache evicts
\* one entry, the least recently used.
C10_BoundedLeastRecentlyUsed ==
    /\ Len(boundaryCache) <= CacheMax
    /\ Len(boundaryCache) = Min(CacheMax, Len(recency))
    /\ Cardinality(CachedKeys) = Len(boundaryCache)
    /\ CachedKeys = MostRecentlyUsed(CacheMax)

C10_Witness ==
    /\ Len(recency) > CacheMax
    /\ Len(boundaryCache) = CacheMax
    /\ "hit" \in Range(last.served)
    /\ "miss" \in Range(last.served)
    /\ CacheKey(LruText(0), "getTagBoundaryPositions") \in CachedKeys
    /\ CacheKey(LruText(0), "getAttributeBoundaryPositions") \notin CachedKeys

(***************************************************************************)
(* Lookups for documents of one digest: documents that differ in one code  *)
(* unit, a lone surrogate or U+FFFD, have the same UTF-8 bytes.            *)
(***************************************************************************)
\* <a s="U+D800U+DC00"/>: the string holds a surrogate pair.
PairText == <<"<", "a", " ", "s", "=", "\"", "U+D800", "U+DC00", "\"", "/", ">">>

\* The texts looked up: the three of one digest and the text with the pair,
\* whose digest and whose lists are others.
CollisionTexts == { Render(p) : p \in SurrogatePrograms }

\* <a s="U+D800"/>, <a s="U+DC00"/> and <a s="U+FFFD"/>
CollidingTexts == CollisionTexts \ { PairText }

\* got: what the lookup returned and the cache it left.
LookupDone(t, fn, got) ==
    /\ text' = t
    /\ boundaryCache' = got.cache
    /\ output' = [fn |-> fn,
                  result |-> [threw |-> got.threw, error |-> got.error, value |-> got.value]]
    /\ UNCHANGED <<cursor, activeEditor, includeTagSetting, last, recency, everHit, input>>

\* got: what the lookup returned and the cache it left; input keeps, in the
\* order of the misses, the function and the text of every call fn(text).
LookupRecorded(t, fn, got) ==
    /\ text' = t
    /\ boundaryCache' = got.cache
    /\ output' = [fn |-> fn, hit |-> got.hit,
                  result |-> [threw |-> got.threw, error |-> got.error, value |-> got.value]]
    /\ input' = IF got.hit THEN input ELSE Append(input, <<fn, t>>)
    /\ UNCHANGED <<cursor, activeEditor, includeTagSetting, last, recency, everHit>>

\* getCachedBoundaries(text, fn) for the text of a document.
LookupUnderCollision(t, fn) ==
    LookupRecorded(t, fn, getCachedBoundaries(boundaryCache, t, fn))

CollisionInit ==
    /\ text \in CollisionTexts
    /\ cursor = 0
    /\ activeEditor = TRUE
    /\ includeTagSetting = "unset"
    /\ boundaryCache = <<>>
    /\ last = NoCommand
    /\ recency = <<>>
    /\ everHit = {}
    /\ input = <<>>
    /\ output = NotCalled

CollisionNext ==
    \E t \in CollisionTexts, fn \in BoundaryFns : LookupUnderCollision(t, fn)

SpecCollision == CollisionInit /\ [][CollisionNext]_vars

\* The lookup was served from the cache.
ServedFromCache == output.fn \in BoundaryFns /\ output.hit

\* fn was never run on the text of the lookup: the list the cache served
\* was computed for another text, one of the same digest.
ComputedForAnother ==
    /\ ServedFromCache
    /\ <<output.fn, text>> \notin Range(input)
    /\ \E t2 \in CollisionTexts \ {text} :
          /\ <<output.fn, t2>> \in Range(input)
          /\ hashText(t2) = hashText(text)

LookupTexts ==
    { LruText(0),
      Render(Program(<<>>, <<Element(<<"b", "r">>, <<BoolAttr(<<"v">>)>>, FALSE, 0, <<"t">>,
                                     <<InnerSelf>>)>>, 0)) }

PassableFns == BoundaryFns \cup ArrowFns

\* getCachedBoundaries(text, fn)
Lookup(t, fn) == LookupDone(t, fn, getCachedBoundaries(boundaryCache, t, fn))

LookupInit ==
    /\ text \in LookupTexts
    /\ cursor = 0
    /\ activeEditor = TRUE
    /\ includeTagSetting = "unset"
    /\ boundaryCache = <<>>
    /\ last = NoCommand
    /\ recency = <<>>
    /\ everHit = {}
    /\ input = <<>>
    /\ output = NotCalled

LookupNext == \E t \in LookupTexts, fn \in PassableFns : Lookup(t, fn)

SpecLookup == LookupInit /\ [][LookupNext]_vars

\* The lookup that has just been made left one entry for its key, at the
\* front of the cache, holding the list it returned.
OneEntryForTheKey ==
    /\ boundaryCache # <<>>
    /\ boundaryCache[1].key = CacheKey(text, output.fn)
    /\ boundaryCache[1].value = output.result.value
    /\ Cardinality(CachedKeys) = Len(boundaryCache)

\* C14 as stated: for every function that can be passed, the same text and
\* the same function use one key, the same text and different functions use
\* different keys, and a lookup is answered with the list of its own function.
C14_EveryFunctionOwnKey ==
    output.fn \in PassableFns =>
        /\ OneEntryForTheKey
        /\ \A g \in PassableFns \ {output.fn} :
              CacheKey(text, g) # CacheKey(text, output.fn)
        /\ output.result.value = CallBoundaryFn(output.fn, text).value

\* C14: for the boundary functions whose names are non-empty and differ from
\* one another, the same text and the same function use one key, the same
\* text and different functions use different keys, and a tag lookup is never
\* answered with an attribute list or vice versa; functions without a name
\* share the key of the name "anonymous".
C14_NamedFunctionsOwnKey ==
    /\ output.fn \in PassableFns => OneEntryForTheKey
    /\ output.fn \in BoundaryFns =>
          /\ \A g \in PassableFns \ {output.fn} :
                CacheKey(text, g) # CacheKey(text, output.fn)
          /\ output.result.value = CallBoundaryFn(output.fn, text).value
    /\ \A f \in ArrowFns, g \in ArrowFns : CacheKey(text, f) = CacheKey(text, g)

\* A tag lookup answered while the key of the nameless functions holds the
\* attribute list of the same text.
C14_Witness ==
    /\ output.fn = "getTagBoundaryPositions"
    /\ Len(boundaryCache) >= 3
    /\ \E i \in DOMAIN boundaryCache :
          /\ boundaryCache[i].key = CacheKey(text, "(text) => getTagBoundaryPositions(text)")
          /\ boundaryCache[i].value = getAttributeBoundaryPositions(text).value
          /\ boundaryCache[i].value # output.result.value
    /\ CacheKey(text, "getAttributeBoundaryPositions") \in CachedKeys

\* C12 as stated: once a lookup for a (text, kind) was a hit, every later
\* lookup for the same (text, kind) is a hit, whatever was navigated between.
C12_OnceHitAlwaysHit ==
    [][CommandStep =>
          \A i \in DOMAIN last'.served :
              CacheKey(text, last'.fns[i]) \in everHit
                  => last'.served[i] = "hit"]_vars

\* The history of uses when the command that has just run made its i-th
\* lookup: the lookups it made before count as uses.
UsesBeforeLookup(i) == UsedKeys(SubSeq(last'.fns, 1, i - 1), text, recency)

MostRecentOf(keys, n) == { keys[j] : j \in 1 .. Min(n, Len(keys)) }

\* C12: once a lookup for a (text, kind) was a hit, every later lookup for the
\* same (text, kind) is a hit as long as the key is still among the 40 keys
\* used most recently, that is while fewer than 40 other keys were looked up
\* or stored since its last use; beyond that the entry is evicted and the
\* next lookup is a miss.
C12_HitStaysWhileRecentlyUsed ==
    [][CommandStep =>
          \A i \in DOMAIN last'.served :
              /\ (CacheKey(text, last'.fns[i]) \in everHit
                    /\ CacheKey(text, last'.fns[i])
                          \in MostRecentOf(UsesBeforeLookup(i), CacheMax))
                    => last'.served[i] = "hit"
              /\ (CacheKey(text, last'.fns[i]) \in everHit
                    /\ CacheKey(text, last'.fns[i])
                          \notin MostRecentOf(UsesBeforeLookup(i), CacheMax))
                    => last'.served[i] = "miss"]_vars

\* The first document is served from the cache again after forty-one other
\* keys were used, while a list that was once a hit is gone from the cache.
C12_Witness ==
    /\ Commanded
    /\ text = LruText(0)
    /\ Len(recency) > CacheMax
    /\ last.served = <<"hit", "hit">>
    /\ everHit \ CachedKeys # {}

(***************************************************************************)
(* The categories a command searches.                                      *)
(***************************************************************************)
TagCommands == {"tag-jumper.jumpForwardTag", "tag-jumper.jumpBackwardTag"}

AttributeCommands == {"tag-jumper.jumpForwardAttribute", "tag-jumper.jumpBackwardAttribute"}

\* The categories the claim gives the command that has just run, under the
\* setting as it is now.
CategoriesOfCommand ==
    IF last.command \in TagCommands THEN {"getTagBoundaryPositions"}
    ELSE IF includeTagSetting \in {"true", "unset"}
         THEN {"getAttributeBoundaryPositions", "getTagBoundaryPositions"}
         ELSE {"getAttributeBoundaryPositions"}

\* C15: a tag command searches the tag boundaries only; an attribute command
\* searches the attribute and the tag boundaries when the setting is true or
\* unset and the attribute boundaries only when it is false, the setting
\* being the one in force when the command runs.
C15_SettingSelectsCategories ==
    Commanded =>
        /\ last.command \in TagCommands \cup AttributeCommands
        /\ Range(last.fns) = CategoriesOfCommand
        /\ ~last.threw =>
              Range(last.positions)
                = UNION { Range(CallBoundaryFn(fn, text).value) : fn \in CategoriesOfCommand }

\* An attribute command run with the setting false after the tag list of the
\* document was cached: the tag boundaries are left out all the same.
C15_Witness ==
    /\ Commanded
    /\ last.command = "tag-jumper.jumpForwardAttribute"
    /\ includeTagSetting = "false"
    /\ ~last.threw
    /\ last.positions # <<>>
    /\ CacheKey(text, "getTagBoundaryPositions") \in CachedKeys
    /\ Range(getTagBoundaryPositions(text).value) \ Range(last.positions) # {}

(***************************************************************************)
(* Errors of the parser and of the extractor.                              *)
(***************************************************************************)
\* The first of the command's functions that raises for the document.
FirstRaising(fns) ==
    CHOOSE i \in DOMAIN fns :
        /\ CallBoundaryFn(fns[i], text).threw
        /\ \A j \in 1 .. i - 1 : ~CallBoundaryFn(fns[j], text).threw

SomeRaises(fns) == \E i \in DOMAIN fns : CallBoundaryFn(fns[i], text).threw

\* C16: when parsing or extraction raises for the document, the command ends
\* with that very error, does not move the cursor and leaves the cache as it
\* was before the command: no entry is stored for the failing request.
C16_ErrorSurfacesUnchanged ==
    [][(CommandStep /\ SomeRaises(last'.fns)) =>
          /\ last'.threw
          /\ ~last'.returned
          /\ last'.error = CallBoundaryFn(last'.fns[FirstRaising(last'.fns)], text).error
          /\ last'.error # ""
          /\ cursor' = cursor
          /\ boundaryCache' = boundaryCache]_vars

\* An attribute command that raised on an unsupported expression kind, the
\* tag list of the document being cached and the cursor inside the text.
C16_Witness ==
    /\ Commanded
    /\ last.command \in AttributeCommands
    /\ last.threw
    /\ last.error # "SyntaxError"
    /\ ~getTagBoundaryPositions(text).threw
    /\ CacheKey(text, "getTagBoundaryPositions") \in CachedKeys
    /\ cursor > 0

(***************************************************************************)
(* The attribute visitor on nodes a parser could hand it: attribute nodes  *)
(* without an end offset, of a foreign type, or with a foreign value.      *)
(***************************************************************************)
AttributeTypeSamples == {"JSXAttribute", "JSXSpreadAttribute", "JSXNamespacedName"}

ValueTypeSamples ==
    {"null", "undefined", "StringLiteral", "JSXElement", "JSXFragment",
     "JSXExpressionContainer", "NumericLiteral"}

\* Attribute nodes starting at offset 3: <a ...
AttributeNodeSamples ==
    { [type |-> ty, start |-> 3, end |-> 8,
       value |-> [type |-> vt, expression |-> [type |-> "Identifier"]]] :
         ty \in AttributeTypeSamples, vt \in ValueTypeSamples }
    \cup { [type |-> ty, start |-> 3,
            value |-> [type |-> "StringLiteral", expression |-> [type |-> ""]]] :
              ty \in AttributeTypeSamples }

\* A second attribute after one of the first kind.
Shifted(attr) ==
    IF HasEnd(attr) THEN [attr EXCEPT !.start = 9, !.end = 14] ELSE [attr EXCEPT !.start = 9]

OpeningElementSamples ==
    { [type |-> "JSXOpeningElement", start |-> 0, end |-> 17, selfClosing |-> TRUE,
       attributes |-> attrs] :
         attrs \in { <<a>> : a \in AttributeNodeSamples }
                   \cup { <<a, Shifted(b)>> :
                            a \in { n \in AttributeNodeSamples :
                                      HasEnd(n) /\ n.type = "JSXAttribute"
                                      /\ n.value.type \in {"null", "StringLiteral"} },
                            b \in AttributeNodeSamples } }

\* The JSXOpeningElement visitor of getAttributeBoundaryPositions called by
\* traverse with the nodes of input.
VisitAttributes ==
    /\ output' = [fn |-> "JSXOpeningElement",
                  result |-> AttributeTraverse(input, Returned(<<>>))]
    /\ UNCHANGED <<input, editorVars>>

\* Opening elements without attributes: <a> at 0, <b/> at 3, and either
\* one without an end offset.
TagNodeSamples ==
    { [type |-> "JSXOpeningElement", start |-> 0, end |-> 3, selfClosing |-> FALSE,
       attributes |-> <<>>],
      [type |-> "JSXOpeningElement", start |-> 3, end |-> 7, selfClosing |-> TRUE,
       attributes |-> <<>>],
      [type |-> "JSXOpeningElement", start |-> 0, selfClosing |-> FALSE,
       attributes |-> <<>>],
      [type |-> "JSXOpeningElement", start |-> 3, selfClosing |-> TRUE,
       attributes |-> <<>>] }

\* The JSXOpeningElement visitor of getTagBoundaryPositions called by
\* traverse with the nodes of input.
VisitTags ==
    /\ output' = [fn |-> "getTagBoundaryPositions",
                  result |-> Returned(TagTraverse(input, <<>>))]
    /\ UNCHANGED <<input, editorVars>>

NodesInit ==
    /\ input \in { <<node>> : node \in OpeningElementSamples }
                 \cup { <<a, b>> : a \in TagNodeSamples, b \in TagNodeSamples }
    /\ output = NotCalled
    /\ EditorIdle

NodesNext == VisitAttributes \/ VisitTags

SpecNodes == NodesInit /\ [][NodesNext]_vars

\* The attribute nodes the claim names: no end offset, neither a named nor
\* a spread attribute, or a named attribute whose value is undefined or of a
\* type outside the four known ones.
MalformedAttribute(attr) ==
    \/ ~HasEnd(attr)
    \/ attr.type \notin {"JSXAttribute", "JSXSpreadAttribute"}
    \/ /\ attr.type = "JSXAttribute"
       /\ attr.value.type
            \notin {"null", "StringLiteral", "JSXElement", "JSXFragment",
                    "JSXExpressionContainer"}

SomeMalformedAttribute ==
    \E i \in DOMAIN input :
        \E j \in DOMAIN input[i].attributes : MalformedAttribute(input[i].attributes[j])

\* C17: attribute extraction raises, and returns no list, whenever an
\* attribute node has no end offset, is neither a named nor a spread
\* attribute, or is a named attribute whose value is undefined or of another
\* type than string literal, element, fragment or expression container.
C17_MalformedAttributeRaises ==
    (output.fn = "JSXOpeningElement" /\ SomeMalformedAttribute) =>
        /\ output.result.threw
        /\ output.result.error # ""
        /\ output.result.value = <<>>

\* The visitor raised on a second attribute of a foreign value type, after
\* a well-formed first one.
C17_Witness ==
    /\ output.fn = "JSXOpeningElement"
    /\ output.result.threw
    /\ Len(input[1].attributes) = 2
    /\ ~MalformedAttribute(input[1].attributes[1])
    /\ input[1].attributes[2].type = "JSXAttribute"
    /\ input[1].attributes[2].value.type = "NumericLiteral"

(***************************************************************************)
(* Relations between searches of one document.                             *)
(***************************************************************************)
\* The forward search of the command that has just run, from another offset.
NextFrom(p) == TargetPosition(last.positions, p, "next")

\* The backward search over the same boundaries.
PreviousFrom(p) == TargetPosition(last.positions, p, "prev")

\* C18: the forward search is monotonic in the position: for the text and
\* the categories of the command that has just run, if q > p and the search
\* finds a boundary from both, the one found from q is not before the one
\* found from p.
C18_NextBoundaryMonotonic ==
    (Commanded /\ ~last.threw) =>
        \A p \in 0 .. Len(text), q \in 0 .. Len(text) :
            (q > p /\ NextFrom(p).found /\ NextFrom(q).found)
                => NextFrom(q).value >= NextFrom(p).value

\* A forward jump has just found a boundary, and from a later offset the
\* search finds a later one.
C18_Witness ==
    /\ Commanded
    /\ last.direction = "next"
    /\ last.target.found
    /\ last.from > 0
    /\ \E q \in last.from + 1 .. Len(text) :
          NextFrom(q).found /\ NextFrom(q).value > last.target.value
    /\ \E q \in last.from + 1 .. Len(text) :
          NextFrom(q).found /\ NextFrom(q).value = last.target.value

\* C19: a forward jump followed by a backward jump never lands past the
\* starting position: if the forward search from p finds b and the backward
\* search from b finds a boundary, that boundary is at or before p.
C19_ForwardThenBackward ==
    (Commanded /\ ~last.threw) =>
        \A p \in 0 .. Len(text) :
            (NextFrom(p).found /\ PreviousFrom(NextFrom(p).value).found)
                => PreviousFrom(NextFrom(p).value).value <= p

\* A forward jump from between two boundaries: the backward search from
\* where it landed finds the boundary before the starting position.
C19_Witness ==
    /\ Commanded
    /\ last.direction = "next"
    /\ last.target.found
    /\ cursor = last.target.value
    /\ PreviousFrom(cursor).found
    /\ PreviousFrom(cursor).value < last.from
    /\ Len(last.fns) = 2

(***************************************************************************)
(* The lists the cache holds.                                              *)
(***************************************************************************)
\* The list fn(text) returned for the text and the function of a key.
ListStoredFor(key) == CallBoundaryFn(key[2], key[1].sha1).value

\* C20: a list stored in the cache is never modified after it is stored: a
\* step leaves every entry it keeps with the same elements in the same
\* order, and an entry it adds holds the list as the locate function
\* returned it; a command changes only which keys are present and their
\* order of recency.
C20_CachedListsNeverModified ==
    [][/\ \A i \in DOMAIN boundaryCache : \A j \in DOMAIN boundaryCache' :
             boundaryCache'[j].key = boundaryCache[i].key
                 => boundaryCache'[j].value = boundaryCache[i].value
       /\ \A j \in DOMAIN boundaryCache' :
             boundaryCache'[j].key \notin CachedKeys
                 => boundaryCache'[j].value = ListStoredFor(boundaryCache'[j].key)
       /\ Cardinality({ boundaryCache'[j].key : j \in DOMAIN boundaryCache' })
             = Len(boundaryCache')]_vars

\* A command served from the cache sorted its positions while the cached
\* tag list it read is still in traversal order, not ascending.
C20_Witness ==
    /\ Commanded
    /\ last.served = <<"hit">>
    /\ boundaryCache # <<>>
    /\ boundaryCache[1].key = CacheKey(text, "getTagBoundaryPositions")
    /\ ~StrictlyAscending(boundaryCache[1].value)
    /\ last.positions # boundaryCache[1].value
    /\ Range(last.positions) = Range(boundaryCache[1].value)

(***************************************************************************)
(* The scenario <div>content</div>.                                        *)
(***************************************************************************)
DivText == Render(DivProgram)

\* C21 as stated: for <div>content</div> the tag list is exactly [3].
C21_DivReturnsThree ==
    (input = DivText /\ output.fn = "getTagBoundaryPositions") =>
        /\ ~output.result.threw
        /\ output.result.value = <<3>>

\* C21: for <div>content</div> the tag list is exactly [4], the offset of
\* the '>' of the opening tag (the cursor there stands just before it); the
\* closing tag contributes no boundary.
C21_DivReturnsOffsetOfBracket ==
    (input = DivText /\ output.fn = "getTagBoundaryPositions") =>
        /\ ~output.result.threw
        /\ output.result.value = <<4>>
        /\ input[output.result.value[1] + 1] = ">"
        /\ Len(output.result.value) = 1

C21_Witness ==
    /\ input = DivText
    /\ Len(input) = 18
    /\ output.fn = "getTagBoundaryPositions"
    /\ ~output.result.threw

(***************************************************************************)
(* The trailing-width table.                                               *)
(***************************************************************************)
BracketedCollectionKinds ==
    {"ArrayExpression", "ObjectExpression", "TupleExpression", "RecordExpression"}

\* C22: every bracketed-collection kind has the width -2 and a bare
\* Identifier the width -1, in the table and in the offsets extraction
\* returns; each kind has the same width in every copy of the table.
C22_TableFollowsDelimiterRule ==
    /\ \A k \in BracketedCollectionKinds : JSX_EXPRESSION_TYPE_OFFSETS[k] = -2
    /\ JSX_EXPRESSION_TYPE_OFFSETS["Identifier"] = -1
    /\ DOMAIN EARLIER_JSX_EXPRESSION_TYPE_OFFSETS = DOMAIN JSX_EXPRESSION_TYPE_OFFSETS
    /\ \A k \in DOMAIN JSX_EXPRESSION_TYPE_OFFSETS :
          EARLIER_JSX_EXPRESSION_TYPE_OFFSETS[k] = JSX_EXPRESSION_TYPE_OFFSETS[k]
    /\ AttributesReturned =>
          \A i \in DOMAIN AttributesOf(input) :
              IsExpressionContainer(AttributesOf(input)[i]) =>
                  /\ AttributesOf(input)[i].value.expression.type \in BracketedCollectionKinds
                        => output.result.value[i] = AttributesOf(input)[i].end - 2
                  /\ AttributesOf(input)[i].value.expression.type = "Identifier"
                        => output.result.value[i] = AttributesOf(input)[i].end - 1

(***************************************************************************)
(* Overlapping requests: two calls of getCachedBoundaries in flight, their *)
(* lookup, extraction and store steps interleaved.  input holds the two    *)
(* calls, each with its locals and its position in the function.           *)
(***************************************************************************)
\* <div>content</div>, <a v/>, and x= which the parser rejects.
OverlapTexts == { DivText, LruText(0), <<"x", "=">> }

NoRequest ==
    [text |-> <<>>, fn |-> "none", pc |-> "idle", hit |-> FALSE, entry |-> <<>>,
     returned |-> <<>>]

\* The cache after the contents <a v/>, <a v/>\n, ... were navigated: full.
FullCache ==
    [i \in 1 .. CacheMax |->
        [key |-> CacheKey(LruText((CacheMax - i) \div 2),
                          IF i % 2 = 1 THEN "getTagBoundaryPositions"
                          ELSE "getAttributeBoundaryPositions"),
         value |-> CallBoundaryFn(IF i % 2 = 1 THEN "getTagBoundaryPositions"
                                  ELSE "getAttributeBoundaryPositions",
                                  LruText((CacheMax - i) \div 2)).value]]

Slots == {1, 2}

\* The host calls getCachedBoundaries(text, fn) while another call may be
\* in flight.
Issue(i, t, fn) ==
    /\ input[i].pc \in {"idle", "done", "threw"}
    /\ input' = [input EXCEPT ![i] = [NoRequest EXCEPT !.text = t, !.fn = fn, !.pc = "get"]]
    /\ UNCHANGED <<output, editorVars>>

\* let entry = boundaryCache.get(key)
LookupStep(i) ==
    /\ input[i].pc = "get"
    /\ boundaryCache' = LruGet(boundaryCache, CacheKey(input[i].text, input[i].fn)).cache
    /\ input' = [input EXCEPT ![i] =
                    IF LruGet(boundaryCache, CacheKey(input[i].text, input[i].fn)).hit
                    THEN [@ EXCEPT !.pc = "return", !.hit = TRUE,
                                   !.entry = LruGet(boundaryCache,
                                                    CacheKey(input[i].text, input[i].fn)).value]
                    ELSE [@ EXCEPT !.pc = "compute"]]
    /\ UNCHANGED <<text, cursor, activeEditor, includeTagSetting, last, recency, everHit,
                   output>>

\* if (!entry) { entry = fn(text): when fn throws the call ends there,
\* nothing stored and nothing returned.
ExtractStep(i) ==
    /\ input[i].pc = "compute"
    /\ input' = [input EXCEPT ![i] =
                    IF CallBoundaryFn(input[i].fn, input[i].text).threw
                    THEN [@ EXCEPT !.pc = "threw"]
                    ELSE [@ EXCEPT !.pc = "set",
                                   !.entry = CallBoundaryFn(input[i].fn, input[i].text).value]]
    /\ UNCHANGED <<output, editorVars>>

\* boundaryCache.set(key, entry) }
StoreStep(i) ==
    /\ input[i].pc = "set"
    /\ boundaryCache' = LruSet(boundaryCache, CacheKey(input[i].text, input[i].fn),
                               input[i].entry)
    /\ input' = [input EXCEPT ![i] = [@ EXCEPT !.pc = "return"]]
    /\ UNCHANGED <<text, cursor, activeEditor, includeTagSetting, last, recency, everHit,
                   output>>

\* return entry
ReturnStep(i) ==
    /\ input[i].pc = "return"
    /\ input' = [input EXCEPT ![i] = [@ EXCEPT !.pc = "done", !.returned = input[i].entry]]
    /\ UNCHANGED <<output, editorVars>>

OverlapInit ==
    /\ input = <<NoRequest, NoRequest>>
    /\ output = NotCalled
    /\ text = <<>>
    /\ cursor = 0
    /\ activeEditor = FALSE
    /\ includeTagSetting = "unset"
    /\ boundaryCache \in { <<>>, FullCache }
    /\ last = NoCommand
    /\ recency = <<>>
    /\ everHit = {}

OverlapNext ==
    \E i \in Slots :
        \/ \E t \in OverlapTexts, fn \in BoundaryFns : Issue(i, t, fn)
        \/ LookupStep(i)
        \/ ExtractStep(i)
        \/ StoreStep(i)
        \/ ReturnStep(i)

SpecOverlap == OverlapInit /\ [][OverlapNext]_vars

\* C23: with the steps of overlapping requests interleaved, the cache never
\* exceeds its capacity, holds one entry per key, every stored key maps to
\* the list its own text and kind extract to, and each request returns the
\* list for its own text and kind.
C23_OverlappingRequestsSafe ==
    /\ Len(boundaryCache) <= CacheMax
    /\ Cardinality(CachedKeys) = Len(boundaryCache)
    /\ \A j \in DOMAIN boundaryCache :
          boundaryCache[j].value = ListStoredFor(boundaryCache[j].key)
    /\ \A i \in Slots :
          input[i].pc = "done"
              => /\ ~CallBoundaryFn(input[i].fn, input[i].text).threw
                 /\ input[i].returned = CallBoundaryFn(input[i].fn, input[i].text).value
    /\ \A i \in Slots :
          input[i].pc = "threw"
              => /\ CallBoundaryFn(input[i].fn, input[i].text).threw
                 /\ CacheKey(input[i].text, input[i].fn) \notin CachedKeys

\* Two requests for one key both missed, both extracted and both stored,
\* the second store into the full cache.
C23_Witness ==
    /\ input[1].pc = "done" /\ input[2].pc = "done"
    /\ input[1].text = DivText /\ input[2].text = DivText
    /\ input[1].fn = input[2].fn
    /\ ~input[1].hit /\ ~input[2].hit
    /\ input[1].returned # <<>>
    /\ Len(boundaryCache) = CacheMax

(***************************************************************************)
(* The scanner called on a text from a start position.                     *)
(***************************************************************************)
CallFindNextTag(startPos) ==
    /\ output' = [fn |-> "findNextTag", position |-> startPos,
                  result |-> findNextTag(input, startPos)]
    /\ UNCHANGED <<input, editorVars>>

CallGetBoundaryOffset(position) ==
    /\ output' = [fn |-> "getBoundaryOffset", position |-> position,
                  result |-> getBoundaryOffset(input, position)]
    /\ UNCHANGED <<input, editorVars>>

ScanInit ==
    /\ input \in ScanTexts
    /\ output = NotCalled
    /\ EditorIdle

ScanNext ==
    \/ \E startPos \in 0 .. Len(input) : CallFindNextTag(startPos)
    \/ \E position \in 0 .. Len(input) : CallGetBoundaryOffset(position)

SpecScan == ScanInit /\ [][ScanNext]_vars

\* The tags of a text as its author wrote them: each '<' that opens a tag,
\* with the '>' that closes it.  Quoted attribute values and {...} blocks,
\* nested ones included, hide the characters inside them.
RECURSIVE ClosingBracket(_, _, _, _)
ClosingBracket(t, j, quote, depth) ==
    IF j >= Len(t) THEN -1
    ELSE IF quote # "" THEN ClosingBracket(t, j + 1, IF t[j + 1] = quote THEN "" ELSE quote, depth)
    ELSE IF t[j + 1] \in {"'", "\""} THEN ClosingBracket(t, j + 1, t[j + 1], depth)
    ELSE IF t[j + 1] = "{" THEN ClosingBracket(t, j + 1, "", depth + 1)
    ELSE IF t[j + 1] = "}" THEN ClosingBracket(t, j + 1, "", depth - 1)
    ELSE IF t[j + 1] = ">" /\ depth = 0 THEN j
    ELSE ClosingBracket(t, j + 1, "", depth)

\* The tags written in the text: the pairs of the offset of a '<' and of
\* its '>', tag after tag from the start of the text.
RECURSIVE TagsWritten(_, _)
TagsWritten(t, from) ==
    IF from >= Len(t) THEN {}
    ELSE IF t[from + 1] # "<" THEN TagsWritten(t, from + 1)
    ELSE IF ClosingBracket(t, from + 1, "", 0) < 0 THEN {}
    ELSE { <<from, ClosingBracket(t, from + 1, "", 0)>> }
         \cup TagsWritten(t, ClosingBracket(t, from + 1, "", 0) + 1)

ScannerCalled(fn) == "position" \in DOMAIN output /\ output.fn = fn

\* A closing tag: the content between '<' and '>' starts with '/'.
ClosingTagAt(t, bounds) ==
    bounds.found /\ StartsWith(Trimmed(t, bounds.start + 1, bounds.end), <<"/">>)

CommentAt(t, bounds) ==
    bounds.found /\ StartsWith(Trimmed(t, bounds.start + 1, bounds.end), <<"!", "-", "-">>)

\* The offset owed for the tags the scanner finds from a position on: that
\* of the first one that is neither a closing tag nor a comment.
RECURSIVE OffsetOwed(_, _)
OffsetOwedFor(t, bounds) ==
    IF ~bounds.found THEN [found |-> FALSE, value |-> 0]
    ELSE IF ClosingTagAt(t, bounds) \/ CommentAt(t, bounds) THEN OffsetOwed(t, bounds.end + 1)
    ELSE IF t[bounds.end] = "/" THEN [found |-> TRUE, value |-> bounds.end - 1]
    ELSE [found |-> TRUE, value |-> bounds.end]

OffsetOwed(t, position) == OffsetOwedFor(t, findNextTag(t, position))

SameOffset(result, other) ==
    result.found = other.found /\ (result.found => result.value = other.value)

\* C24: getBoundaryOffset returns, for the first tag found from the start
\* position on that is neither a closing tag nor a comment, the index of its
\* '>' when it is an open tag and the index of the '/' of its '/>' when it
\* is self-closing, and null when no such tag remains.
C24_OffsetOfFirstOpenOrSelfClosing ==
    ScannerCalled("getBoundaryOffset")
        => SameOffset(output.result, OffsetOwed(input, output.position))

\* C25: a closing tag, the fragment close '</>' included, gives no offset:
\* called where the next tag is a closing tag, getBoundaryOffset returns
\* what it returns from just after that tag's '>'.
C25_ClosingTagsSkipped ==
    ScannerCalled("getBoundaryOffset") /\ ClosingTagAt(input, findNextTag(input, output.position))
        => SameOffset(output.result,
                      getBoundaryOffset(input, findNextTag(input, output.position).end + 1))

\* C26: findNextTag returns null when the start position is at or past the
\* end of the text or no tag follows it, and otherwise the offsets of the
\* '<' and of the '>' of the first tag written from the start position on:
\* no '<' or '>' inside a quoted attribute value or inside a {...} block
\* starts or ends a tag.
C26_FindsTheTagsWritten ==
    ScannerCalled("findNextTag")
        => /\ output.result.found
                <=> \E tag \in TagsWritten(input, 0) : tag[1] >= output.position
           /\ output.result.found
                => /\ output.position <= output.result.start
                   /\ output.result.start < output.result.end
                   /\ output.result.end < Len(input)
                   /\ input[output.result.start + 1] = "<"
                   /\ input[output.result.end + 1] = ">"
                   /\ <<output.result.start, output.result.end>> \in TagsWritten(input, 0)
                   /\ \A tag \in TagsWritten(input, 0) :
                        tag[1] >= output.position => tag[1] >= output.result.start

\* C30: getBoundaryOffset ends for every text and every start position
\* within as many skipped tags as the text has characters, and never by
\* the guard 'cursor <= lastEnd'.
C30_ScanEndsWithoutGuard ==
    ScannerCalled("getBoundaryOffset")
        => ~output.result.guard /\ output.result.skipped <= Len(input)

\* Two tags were skipped one after the other before the scan ended.
C30_Witness ==
    /\ ScannerCalled("getBoundaryOffset")
    /\ output.result.skipped >= 2
    /\ ~output.result.guard

(***************************************************************************)
(* Repeated jumps over one document.                                       *)
(***************************************************************************)
Largest(boundaries) == CHOOSE b \in boundaries : \A c \in boundaries : c <= b

\* Where a forward jump over positions takes the cursor from p.
AfterForwardJump(positions, p) ==
    IF TargetPosition(positions, p, "next").found
    THEN TargetPosition(positions, p, "next").value
    ELSE p

\* Where the cursor is after so many forward jumps over positions from p.
RECURSIVE AfterForwardJumps(_, _, _)
AfterForwardJumps(positions, p, jumps) ==
    IF jumps = 0 THEN p
    ELSE CHOOSE r \in { AfterForwardJumps(positions, q, jumps - 1) :
                           q \in { AfterForwardJump(positions, p) } } : TRUE

\* A jump over the boundaries, of which positions is the list searched, that
\* took the cursor from one offset to another.
JumpInOrder(direction, from, to, boundaries, positions, length) ==
    /\ (direction = "next" /\ to # from) =>
          /\ to > from
          /\ to \in boundaries
          /\ \A b \in boundaries : ~(from < b /\ b < to)
    /\ (direction = "prev" /\ to # from) =>
          /\ to < from
          /\ to \in boundaries
          /\ \A b \in boundaries : ~(to < b /\ b < from)
    /\ (direction = "next" /\ \A b \in boundaries : b <= from) => to = from
    /\ \A p \in 0 .. length :
          (\E b \in boundaries : b >= p) =>
              AfterForwardJumps(positions, p, Cardinality(boundaries)) = Largest(boundaries)

\* C27: a forward jump that moves the cursor from the offset it read moves
\* it to a strictly greater offset that is a selected boundary, with no
\* selected boundary between the two (a backward jump to a strictly smaller
\* one); so forward jumps repeated from any offset with a boundary at or
\* after it rest on the largest boundary after as many jumps as there are
\* boundaries, and a forward jump from at or after the largest boundary
\* leaves the cursor.
C27_JumpsVisitBoundariesInOrder ==
    (Commanded /\ ~last.threw) =>
        JumpInOrder(last.direction, last.from, cursor, SelectedBoundaries,
                    last.positions, Len(text))

\* A forward jump from one boundary has just reached the largest of three
\* or more boundaries.
C27_Witness ==
    /\ Commanded
    /\ last.direction = "next"
    /\ ~last.threw
    /\ last.target.found
    /\ last.from \in SelectedBoundaries
    /\ Cardinality(SelectedBoundaries) >= 3
    /\ cursor = Largest(SelectedBoundaries)

(***************************************************************************)
(* What a tag command leaves alone.                                        *)
(***************************************************************************)
\* C28: a tag command calls the tag extractor only: it raises exactly when
\* tag extraction raises for the document, whatever attribute extraction
\* would do, looks up one list, and the only cache entry it can add is the
\* tag list of the document.
C28_TagCommandsLeaveAttributesAlone ==
    [][(CommandStep /\ last'.command \in TagCommands) =>
          /\ last'.fns = <<"getTagBoundaryPositions">>
          /\ Len(last'.served) = 1
          /\ last'.threw <=> getTagBoundaryPositions(text).threw
          /\ last'.returned <=> ~getTagBoundaryPositions(text).threw
          /\ CachedKeys' \ CachedKeys \subseteq {CacheKey(text, "getTagBoundaryPositions")}
          /\ Len(boundaryCache') <= Len(boundaryCache) + 1]_vars

\* A tag command has moved the cursor in a document for which attribute
\* extraction raises, and has stored the tag list, the one entry of the
\* cache.
C28_Witness ==
    /\ Commanded
    /\ last.command \in TagCommands
    /\ last.returned
    /\ last.target.found
    /\ last.served = <<"miss">>
    /\ getAttributeBoundaryPositions(text).threw
    /\ CachedKeys = {CacheKey(text, "getTagBoundaryPositions")}

(***************************************************************************)
(* Tag nodes without an end offset.                                        *)
(***************************************************************************)
\* The offset the tag visitor owes for a node that has an end offset.
TagOffset(node) == IF node.selfClosing THEN node.end - 2 ELSE node.end - 1

\* C29: tag extraction never raises for a tag node without a numeric end
\* offset: the node is left out, the list holding the offsets of the other
\* tags in order and so fewer entries than there are tags; attribute
\* extraction raises for an attribute without an end offset.
C29_TagWithoutEndOmitted ==
    /\ output.fn = "getTagBoundaryPositions" =>
          /\ ~output.result.threw
          /\ Len(output.result.value) = Len(SelectSeq(input, HasEnd))
          /\ \A k \in DOMAIN output.result.value :
                output.result.value[k] = TagOffset(SelectSeq(input, HasEnd)[k])
          /\ (\E i \in DOMAIN input : ~HasEnd(input[i]))
                => Len(output.result.value) < Len(input)
    /\ (/\ output.fn = "JSXOpeningElement"
        /\ \E i \in DOMAIN input :
              \E j \in DOMAIN input[i].attributes : ~HasEnd(input[i].attributes[j]))
          => output.result.threw

\* Of two tags the first has no end offset: the list holds the offset of
\* the second only.
C29_Witness ==
    /\ output.fn = "getTagBoundaryPositions"
    /\ Len(input) = 2
    /\ ~HasEnd(input[1])
    /\ HasEnd(input[2])
    /\ ~output.result.threw
    /\ output.result.value = <<TagOffset(input[2])>>

====
